---- MODULE Spec2Model ----
(***************************************************************************)
(* Noe: node-architecture admission webhook, registry client, TTL cache    *)
(* and pod reconciler.                                                     *)
(*                                                                         *)
(* Several state machines share this module, each with its own             *)
(* specification:                                                          *)
(*   SpecResolver    the placement resolver  (pkg/arch/hook.go)            *)
(*   SpecCache       the cached registry     (pkg/registry/cache.go)       *)
(*   SpecReconciler  the pod reconciler      (pkg/controllers/pod.go)      *)
(*   SpecListArchs   the registry client     (pkg/registry/registry.go)    *)
(*   SpecTransport   the WWW-Authenticate transport and its token cache    *)
(*   SpecRateLimited the rate-limited transport                            *)
(*   SpecImageReference  image references and private-registry patterns    *)
(*   SpecAdmission   admission requests of every kind                      *)
(*   SpecFanout      the descriptor goroutines of a manifest list          *)
(*   SpecDeletionEvents  the events of pod deletions                       *)
(*   SpecTokenScope  cached tokens and the hosts they are sent to          *)
(* The variables of the machines that a specification does not run stay    *)
(* at their initial value.                                                 *)
(***************************************************************************)
EXTENDS Integers, Sequences, FiniteSets, TLC

VARIABLES
    \* ---- placement resolver (Handler.Handle / Handler.updatePodSpec)
    handler,        \* the Handler's configuration
    podLabels,      \* labels of the workload under admission
    origSpec,       \* pod spec of the admission request
    podSpec,        \* pod spec after the last updatePodSpec
    firstSpec,      \* pod spec as patched by the first admission
    registry,       \* what Registry.ListArchs answers for each image, in order
    outcome,        \* what the last updatePodSpec did (error, lookups, decision)
    response,       \* the admission response of the last Handle
    rpc             \* "new" | "admitted" | "readmitted"

resolverVars == <<handler, podLabels, origSpec, podSpec, firstSpec, registry,
                  outcome, response, rpc>>

VARIABLES
    \* ---- cached registry (Cache and CachedRegistry)
    now,            \* time.Now()
    cache,          \* Cache.cache: key -> entry
    serialize,      \* Cache.serialize: key -> mutex (0: no mutex stored)
    mutexHolder,    \* for each mutex, the call that holds it (0: unlocked)
    cleanupAccess,  \* Cache.cleanupAccess: whether a CleanUp call holds it
    lastCleanup,    \* Cache.lastCleanup
    CleanUpPeriod,  \* Cache.CleanUpPeriod (0: unset)
    calls,          \* the CachedRegistry.ListArchs calls
    cleanups,       \* `now` arguments of the CleanUp goroutines yet to run
    sweep,          \* the CleanUp call that holds cleanupAccess
    sweepTodo,      \* keys the running sweep's Range has yet to visit
    sweepKey,       \* key the running sweep found expired
    registryCalls,  \* per key, how often the wrapped registry was invoked
    failures        \* per key, how many of these invocations failed

VARIABLES
    \* ---- pod reconciler (PodReconciler) and the cluster it watches
    pods,           \* the API server's pods
    upstream,       \* platforms the registry reports for each image
    queue,          \* reconcile requests waiting in the controller's workqueue
    podImages,      \* PodReconciler.podImages: pod -> images (tracked pods)
    imagePlatforms, \* PodReconciler.imagePlatforms: image -> (platforms, refcount)
    registryErrors, \* number of registry lookups that failed so far
    lastReconcile,  \* what the last Reconcile returned and did
    imageCount,     \* ControllerMetrics.ImageCount: (image, platform) -> gauge
    pushes          \* number of images pushed again with other platforms

reconcilerVars == <<pods, upstream, queue, podImages, imagePlatforms, registryErrors,
                    lastReconcile, imageCount, pushes>>

cacheVars == <<now, cache, serialize, mutexHolder, cleanupAccess, lastCleanup,
               CleanUpPeriod, calls, cleanups, sweep, sweepTodo, sweepKey,
               registryCalls, failures>>

VARIABLES
    \* ---- registry client (PlainRegistry.ListArchs and its Authenticators)
    schedulable,    \* PlainRegistry.SchedulableArchitectures
    emits,          \* candidates each authenticator of the chain has for the image
    producer,       \* the goroutine that runs Authenticators.Authenticate
    consumer,       \* the `for auth := range candidates` loop of ListArchs
    ctxDone,        \* whether ListArchs' context is cancelled
    attempts,       \* candidates passed to listArchsWithAuth so far, in order
    lastAttempt,    \* what the last listArchsWithAuth was answered and returned
    result          \* what ListArchs returned

clientVars == <<schedulable, emits, producer, consumer, ctxDone, attempts,
                lastAttempt, result>>

VARIABLES
    \* ---- WWW-Authenticate transport (WWWAuthenticateTransport.RoundTrip)
    roundTrips,     \* the RoundTrip calls in progress
    granted,        \* per cache key, the expiry of the token stored last
    lastReturn      \* what the RoundTrip that returned last did and returned

transportVars == <<roundTrips, granted, lastReturn>>

VARIABLES
    \* ---- rate-limited transport (RateLimitedRoundTripper)
    ConcurrentCallsLimit, \* RateLimitedRoundTripper.ConcurrentCallsLimit
    requestsChans,  \* key -> the key's channel (0: none)
    inFlights,      \* key -> RoundTrip calls that hold the key's channel
    chans,          \* the channels made so far, their workers and what they serve
    requests        \* the RoundTrip calls

rateVars == <<ConcurrentCallsLimit, requestsChans, inFlights, chans, requests>>

VARIABLES
    \* ---- image references (parseImage, imageMatchesLoginPattern)
    PrivateRegistryPatterns, \* AnonymousAuthenticator.PrivateRegistryPatterns
    Proxies,        \* PlainRegistry.Proxies
    reference,      \* the image reference ListArchs is called with
    parsed,         \* what parseImage made of it
    anonymous       \* what the anonymous authenticator did

imageVars == <<PrivateRegistryPatterns, Proxies, reference, parsed, anonymous>>

VARIABLES
    \* ---- admission requests (Handler.Handle)
    decoder,        \* whether Handler.decoder is set
    request,        \* the admission.Request
    admitted        \* the admission.Response, the lookups made and the events sent

admissionVars == <<decoder, request, admitted>>

VARIABLES
    \* ---- the descriptors of one manifest list (listArchsWithAuth)
    manifestList,   \* response.Manifests and the answer to each pointed request
    verifiers,      \* where the goroutine of each requested descriptor stands
    collector,      \* the loop that ranges over outChan, and its platforms
    outChanClosed   \* whether the closing goroutine has closed outChan

fanoutVars == <<manifestList, verifiers, collector, outChanClosed>>

VARIABLES
    \* ---- the events of pod deletions (deletePodAndNotifyUser)
    apiEvents,      \* the v1.Event objects of the API server, by namespace and name
    accepted,       \* per owner and suffix, the upserts the API server accepted
    deleteCalls     \* the calls of deletePodAndNotifyUser so far

eventVars == <<apiEvents, accepted, deleteCalls>>

VARIABLES
    \* ---- the tokens of WWWAuthenticateTransport and the hosts they reach
    authenticateCache,  \* PlainRegistry.authenticateCache: cache key to Authorization header
    sentRequests,       \* the requests handed to the base transport: host and header
    trip,               \* the RoundTrip call in progress
    trips               \* the RoundTrip calls begun so far

scopeVars == <<authenticateCache, sentRequests, trip, trips>>

\* The variables each machine leaves alone.
othersOfResolver == <<cacheVars, reconcilerVars, clientVars, transportVars, rateVars, imageVars, admissionVars, fanoutVars, eventVars, scopeVars>>

othersOfCache == <<resolverVars, reconcilerVars, clientVars, transportVars, rateVars, imageVars, admissionVars, fanoutVars, eventVars, scopeVars>>

othersOfReconciler == <<resolverVars, cacheVars, clientVars, transportVars, rateVars, imageVars, admissionVars, fanoutVars, eventVars, scopeVars>>

othersOfClient == <<resolverVars, cacheVars, reconcilerVars, transportVars, rateVars, imageVars, admissionVars, fanoutVars, eventVars, scopeVars>>

othersOfTransport == <<resolverVars, reconcilerVars, clientVars, rateVars, imageVars, admissionVars, fanoutVars, eventVars, scopeVars>>

othersOfRate == <<resolverVars, cacheVars, reconcilerVars, clientVars, transportVars, imageVars, admissionVars, fanoutVars, eventVars, scopeVars>>

othersOfImage == <<resolverVars, cacheVars, reconcilerVars, clientVars, transportVars, rateVars,
                   admissionVars, fanoutVars, eventVars, scopeVars>>

othersOfAdmission == <<cacheVars, reconcilerVars, clientVars, transportVars, rateVars, imageVars, fanoutVars, eventVars, scopeVars>>

othersOfFanout == <<resolverVars, cacheVars, reconcilerVars, clientVars, transportVars, rateVars, imageVars, admissionVars, eventVars, scopeVars>>

othersOfEvents == <<resolverVars, cacheVars, reconcilerVars, clientVars, transportVars, rateVars, imageVars, admissionVars, fanoutVars, scopeVars>>

othersOfScope == <<resolverVars, cacheVars, reconcilerVars, clientVars, transportVars, rateVars, imageVars, admissionVars, fanoutVars, eventVars>>

----------------------------------------------------------------------------
(* Values of the resolver                                                  *)

archKey == "kubernetes.io/arch"
betaArchKey == "beta.kubernetes.io/arch"
preferredLabel == "arch.noe.adevinta.com/preferred"
metadataName == "metadata.name"
NoCommonArch == "could not find a common image architecture across all containers"

\* Architecture names in the order slices.Sort gives them.
LexOrder == <<"amd64", "arm64", "s390x">>

\* Number of images (containers and init-containers) of a workload.
MaxImages == 2

Platform(os, arch) == [OS |-> os, Architecture |-> arch]

\* Platform lists a registry may report for one image.
PlatformLists ==
    { {Platform("", "amd64")},
      {Platform("linux", "arm64")},
      {Platform("linux", "amd64"), Platform("linux", "arm64"), Platform("windows", "amd64")},
      {Platform("windows", "amd64"), Platform("linux", "s390x")} }

\* One answer of Registry.ListArchs: an error, or a platform list.
ListArchsAnswers ==
    {[err |-> TRUE, platforms |-> {}]} \cup
    {[err |-> FALSE, platforms |-> ps] : ps \in PlatformLists}

EmptyMap == [k \in {} |-> ""]

\* A Go map[string]string that may be nil.
NilMap == [nil |-> TRUE, m |-> EmptyMap]
MapOf(f) == [nil |-> FALSE, m |-> f]

Requirement(key, values) == [Key |-> key, Operator |-> "In", Values |-> values]
ExprTerm(key, values) ==
    [MatchExpressions |-> <<Requirement(key, values)>>, MatchFields |-> <<>>]
FieldTerm(key, values) ==
    [MatchExpressions |-> <<>>, MatchFields |-> <<Requirement(key, values)>>]

\* v1.PodSpec: the fields the resolver reads or writes.  NodeSelectorTerms is
\* Affinity.NodeAffinity.RequiredDuringSchedulingIgnoredDuringExecution's list,
\* empty when any pointer on that path is nil.
PodSpecOf(nodeName, nodeSelector, terms) ==
    [NodeName |-> nodeName, NodeSelector |-> nodeSelector, NodeSelectorTerms |-> terms]

NodeSelectors ==
    { NilMap,
      MapOf(EmptyMap),
      MapOf([k \in {"zone"} |-> "b"]),
      MapOf([k \in {archKey} |-> "amd64"]),
      MapOf([k \in {betaArchKey} |-> "amd64"]) }

TermLists ==
    { <<>>,
      <<ExprTerm("disk", <<"ssd">>)>>,
      <<ExprTerm(archKey, <<"amd64">>)>>,
      <<ExprTerm(betaArchKey, <<"arm64">>)>>,
      <<FieldTerm(metadataName, <<"node-1">>)>> }

PodSpecs ==
    { PodSpecOf("", s, t) : s \in NodeSelectors, t \in TermLists } \cup
    { PodSpecOf("node-1", NilMap, <<>>),
      PodSpecOf("node-1", NilMap, <<ExprTerm("disk", <<"ssd">>)>>) }

PodLabelSets ==
    { [k \in ks |-> IF k = "zone" THEN "a" ELSE pv] :
        ks \in SUBSET {"zone", preferredLabel}, pv \in {"arm64", "ppc64le"} }

Handlers ==
    [ matchNodeLabels : {<<>>, <<"zone">>},
      preferredArchitecture : {"", "amd64"},
      schedulableArchitectures : {{}, {"amd64", "arm64"}},
      systemOS : {"linux"} ]

RECURSIVE SeqsUpTo(_, _)
SeqsUpTo(S, n) ==
    IF n = 0 THEN {<<>>}
    ELSE LET shorter == SeqsUpTo(S, n - 1)
         IN  shorter \cup {Append(s, x) : s \in {t \in shorter : Len(t) = n - 1}, x \in S}

----------------------------------------------------------------------------
(* Handler.updatePodSpec and its helpers                                   *)

Range(s) == {s[i] : i \in DOMAIN s}

\* The value a lookup in a Go map gives: (value, ok).
Has(map, key) == ~map.nil /\ key \in DOMAIN map.m

isArchSupported(h, arch) ==
    IF h.schedulableArchitectures = {} THEN TRUE
    ELSE arch \in h.schedulableArchitectures

\* Mutant: the beta.kubernetes.io/arch node-selector is not looked for.
PodSpecHasNodeArchitectureSelection_NoBeta(spec) ==
    \/ Has(spec.NodeSelector, archKey)
    \/ \E i \in DOMAIN spec.NodeSelectorTerms :
          \/ \E e \in Range(spec.NodeSelectorTerms[i].MatchExpressions) :
                e.Key = archKey \/ e.Key = betaArchKey
          \/ \E f \in Range(spec.NodeSelectorTerms[i].MatchFields) :
                f.Key = metadataName

PodSpecHasNodeArchitectureSelection(spec) ==
    \/ Has(spec.NodeSelector, betaArchKey)
    \/ Has(spec.NodeSelector, archKey)
    \/ \E i \in DOMAIN spec.NodeSelectorTerms :
          \/ \E e \in Range(spec.NodeSelectorTerms[i].MatchExpressions) :
                e.Key = archKey \/ e.Key = betaArchKey
          \/ \E f \in Range(spec.NodeSelectorTerms[i].MatchFields) :
                f.Key = metadataName

\* One iteration of addPodNodeMatchingLabels' loop.
addNodeMatchingLabel(labels, spec, key) ==
    IF key \notin DOMAIN labels THEN spec
    ELSE IF spec.NodeSelector.nil
         THEN [spec EXCEPT !.NodeSelectorTerms =
                   Append(@, ExprTerm(key, <<labels[key]>>))]
         ELSE [spec EXCEPT !.NodeSelector =
                   MapOf([k \in DOMAIN @.m \cup {key} |->
                             IF k = key THEN labels[key] ELSE @.m[k]])]

RECURSIVE addPodNodeMatchingLabelsFrom(_, _, _, _)
addPodNodeMatchingLabelsFrom(h, labels, spec, i) ==
    IF i > Len(h.matchNodeLabels) THEN spec
    ELSE addPodNodeMatchingLabelsFrom(
             h, labels, addNodeMatchingLabel(labels, spec, h.matchNodeLabels[i]), i + 1)

addPodNodeMatchingLabels(h, labels, spec) ==
    addPodNodeMatchingLabelsFrom(h, labels, spec, 1)

\* keys(set): the set's members, sorted.
\* Mutant: the keys come in the reverse of the sorted order.
keys_Unsorted(set) ==
    LET sorted == SelectSeq(LexOrder, LAMBDA a : a \in set)
    IN  [i \in 1..Len(sorted) |-> sorted[Len(sorted) + 1 - i]]

keys(set) == SelectSeq(LexOrder, LAMBDA a : a \in set)

\* The architectures of one image that pass the OS and schedulable filters.
imageArchitectures(h, platforms) ==
    { p.Architecture : p \in
        { q \in platforms :
            /\ ~(q.OS # "" /\ q.OS # h.systemOS)
            /\ isArchSupported(h, q.Architecture) } }

\* The loop of updatePodSpec over the workload's images: it returns at the
\* first lookup that fails, else intersects the images' architectures.
RECURSIVE resolveImages(_, _, _, _, _)
resolveImages(h, answers, i, common, firstImage) ==
    IF i > Len(answers)
    THEN [failed |-> FALSE, lookups |-> Len(answers), common |-> common,
          firstImage |-> firstImage]
    ELSE IF answers[i].err
    THEN [failed |-> TRUE, lookups |-> i, common |-> common,
          firstImage |-> firstImage]
    ELSE LET archs == imageArchitectures(h, answers[i].platforms)
         IN  resolveImages(h, answers, i + 1,
                           IF firstImage THEN archs ELSE common \cap archs,
                           FALSE)

\* Mutant: the pod-level preferred architecture is never honoured.
podPreferredArch_Dropped(h, labels) == ""

\* The pod-level preferred architecture, unless it is unsupported.
podPreferredArch(h, labels) ==
    LET label == IF preferredLabel \in DOMAIN labels THEN labels[preferredLabel] ELSE ""
    IN  IF label # "" /\ ~isArchSupported(h, label) THEN "" ELSE label

Outcome(spec, err, warning, decision, loop) ==
    [spec |-> spec, err |-> err, warning |-> warning, decision |-> decision,
     failed |-> loop.failed, lookups |-> loop.lookups,
     resolved |-> IF loop.failed THEN loop.lookups - 1 ELSE loop.lookups,
     common |-> loop.common]

NoLoop == [failed |-> FALSE, lookups |-> 0, common |-> {}, firstImage |-> TRUE]

\* The architecture decision of updatePodSpec once the images are resolved and
\* have a common architecture.
selectArchitecture(h, labels, spec, loop) ==
    LET userArch == podPreferredArch(h, labels)
        useDefault == userArch = "" /\ h.preferredArchitecture # ""
        preferredArch == IF useDefault THEN h.preferredArchitecture ELSE userArch
        preferredArchDefined == useDefault \/ preferredLabel \in DOMAIN labels
        preferredArchIsDefault == useDefault
    IN  IF preferredArch \in loop.common /\ preferredArchDefined
        THEN Outcome(
                 addPodNodeMatchingLabels(h, labels,
                     [spec EXCEPT !.NodeSelector =
                         MapOf([k \in (IF @.nil THEN {} ELSE DOMAIN @.m) \cup {archKey} |->
                                   IF k = archKey THEN preferredArch ELSE @.m[k]])]),
                 "", "", "node-selector-set", loop)
        ELSE LET withAffinity ==
                     [spec EXCEPT !.NodeSelectorTerms =
                         Append(@, ExprTerm(archKey, keys(loop.common)))]
             IN  IF preferredArchDefined /\ ~preferredArchIsDefault
                 THEN Outcome(addPodNodeMatchingLabels(h, labels, withAffinity),
                              "warning", preferredArch, "node-affinity-add", loop)
                 ELSE Outcome(addPodNodeMatchingLabels(h, labels, withAffinity),
                              "", "", "node-affinity-add", loop)

\* Mutant: the lookup's error is returned to Handle.
onRegistryError_ReturnsErr(h, labels, spec, loop) ==
    Outcome(spec, "unable to list image archs", "", "registry-error", loop)

\* A registry lookup failed: the workload is left as it is and admitted.
onRegistryError(h, labels, spec, loop) ==
    Outcome(spec, "", "", "registry-error", loop)

\* Mutant: no error is returned when the images have nothing in common.
onNoCommonArchitecture_Admits(h, labels, spec, loop) ==
    Outcome(addPodNodeMatchingLabels(h, labels, spec), "", "", "reject", loop)

\* The images have no architecture in common: the request is rejected.
onNoCommonArchitecture(h, labels, spec, loop) ==
    Outcome(addPodNodeMatchingLabels(h, labels, spec), NoCommonArch, "", "reject", loop)

updatePodSpec(h, labels, spec, answers) ==
    IF spec.NodeName # ""
    THEN Outcome(spec, "", "", "no-op", NoLoop)
    ELSE IF PodSpecHasNodeArchitectureSelection(spec)
    THEN Outcome(addPodNodeMatchingLabels(h, labels, spec), "", "", "no-op", NoLoop)
    ELSE LET loop == resolveImages(h, answers, 1, {}, TRUE)
         IN  IF loop.failed
             THEN onRegistryError(h, labels, spec, loop)
             ELSE IF loop.firstImage
             THEN Outcome(addPodNodeMatchingLabels(h, labels, spec), "", "",
                          "no-image", loop)
             ELSE IF loop.common = {}
             THEN onNoCommonArchitecture(h, labels, spec, loop)
             ELSE selectArchitecture(h, labels, spec, loop)

----------------------------------------------------------------------------
(* Handler.Handle                                                          *)

\* What the API server decodes from the JSON of a spec: nodeSelector carries
\* omitempty, so an empty map comes back nil.
toJson(spec) ==
    [spec EXCEPT !.NodeSelector = IF @.nil \/ DOMAIN @.m = {} THEN NilMap ELSE @]

\* warning.Error(): the text before the architecture, and the architecture.
warningMessage(arch) == <<"could not select preferred arch: ", arch>>

\* Handle for a Pod CREATE request carrying `spec`.  The response's warning
\* is the message of the warning updatePodSpec returned, <<>> without one.
HandlePod(h, labels, spec, answers) ==
    LET out == updatePodSpec(h, labels, spec, answers)
    IN  IF out.err # "" /\ out.err # "warning"
        THEN [out |-> out,
              response |-> [allowed |-> FALSE, message |-> out.err,
                            patched |-> FALSE, patch |-> toJson(spec),
                            warning |-> <<>>]]
        ELSE [out |-> out,
              response |-> [allowed |-> TRUE, message |-> "",
                            patched |-> toJson(out.spec) # toJson(spec),
                            patch |-> toJson(out.spec),
                            warning |-> IF out.err = "warning"
                                        THEN warningMessage(out.warning) ELSE <<>>]]

NoResponse ==
    [allowed |-> TRUE, message |-> "", patched |-> FALSE,
     patch |-> PodSpecOf("", NilMap, <<>>), warning |-> <<>>]

InitResolver ==
    /\ handler \in Handlers
    /\ podLabels \in PodLabelSets
    /\ origSpec \in PodSpecs
    /\ registry \in SeqsUpTo(ListArchsAnswers, MaxImages)
    /\ podSpec = origSpec
    /\ firstSpec = origSpec
    /\ outcome = Outcome(origSpec, "", "", "none", NoLoop)
    /\ response = NoResponse
    /\ rpc = "new"

\* The API server sends the workload's CREATE to the webhook.
Handle ==
    /\ rpc = "new"
    /\ LET r == HandlePod(handler, podLabels, origSpec, registry)
       IN  /\ outcome' = r.out
           /\ response' = r.response
           /\ podSpec' = r.out.spec
           /\ firstSpec' = r.response.patch
    /\ rpc' = "admitted"
    /\ UNCHANGED <<handler, podLabels, origSpec, registry>>
    /\ UNCHANGED othersOfResolver

\* The patched workload is sent to the webhook again (the API server
\* reinvokes the webhook, or a pod is created from a patched DaemonSet
\* template); the registry answers as before.
HandleAgain ==
    /\ rpc = "admitted"
    /\ response.allowed
    /\ LET r == HandlePod(handler, podLabels, firstSpec, registry)
       IN  /\ outcome' = r.out
           /\ response' = r.response
           /\ podSpec' = r.out.spec
    /\ rpc' = "readmitted"
    /\ UNCHANGED <<handler, podLabels, origSpec, firstSpec, registry>>
    /\ UNCHANGED othersOfResolver

NextResolver == Handle \/ HandleAgain

----------------------------------------------------------------------------
(* Handler.Handle for any admission request                                *)

AdmissionRequests ==
    [ kind : {"Pod", "DaemonSet", "Deployment"},
      operation : {"CREATE", "UPDATE"},
      decodable : BOOLEAN,      \* whether decoder.Decode returns no error
      serialisable : BOOLEAN ]  \* whether toJson returns no error

\* An admission.Response: the HTTP status code of its result, whether it
\* allows and patches, its message and warnings; and, with it, the
\* registry lookups and the events of the Handle that built it.
Answer(code, allowed, patched, message, warnings, lookups, events) ==
    [handled |-> TRUE, code |-> code, allowed |-> allowed, patched |-> patched,
     message |-> message, warnings |-> warnings, lookups |-> lookups,
     events |-> events]

NotHandled ==
    [handled |-> FALSE, code |-> 0, allowed |-> FALSE, patched |-> FALSE,
     message |-> "", warnings |-> <<>>, lookups |-> 0, events |-> {}]

\* Mutant: pod requests of every operation are patched.
skipsOperation_Never(operation) == FALSE

\* The test on req.Operation for pods.
skipsOperation(operation) == operation # "CREATE"

\* Handle from the decoded workload on, for pods and daemon sets alike.
\* When toJson fails the admission.Errored(400) it builds is dropped, and
\* PatchResponseFromRaw answers the nil document with an internal error.
HandleWorkload(req) ==
    IF ~req.decodable
    THEN Answer(400, FALSE, FALSE, "failed to decode", <<>>, 0, {"failed"})
    ELSE LET r == HandlePod(handler, podLabels, origSpec, registry)
         IN  IF ~r.response.allowed
             THEN Answer(403, FALSE, FALSE, r.response.message, <<>>, r.out.lookups,
                         {"failed"})
             ELSE IF ~req.serialisable
             THEN Answer(500, FALSE, FALSE, "invalid JSON document",
                         r.response.warning, r.out.lookups, {"failed"})
             ELSE Answer(200, TRUE, r.response.patched, "", r.response.warning,
                         r.out.lookups,
                         IF r.response.patched THEN {"success"} ELSE {})

HandleRequest ==
    /\ ~admitted.handled
    /\ admitted' =
        IF ~decoder
        THEN Answer(200, TRUE, FALSE, "Unable to decode object, skipping update",
                    <<>>, 0, {})
        ELSE IF request.kind = "Pod"
        THEN IF skipsOperation(request.operation)
             THEN Answer(200, TRUE, FALSE, "skipping adding node selector to pod updates",
                         <<>>, 0, {})
             ELSE HandleWorkload(request)
        ELSE IF request.kind = "DaemonSet"
        THEN HandleWorkload(request)
        ELSE Answer(200, TRUE, FALSE, "nothing to do for type", <<>>, 0, {})
    /\ UNCHANGED <<decoder, request>>
    /\ UNCHANGED resolverVars
    /\ UNCHANGED othersOfAdmission

NextAdmission == HandleRequest

----------------------------------------------------------------------------
(* Scheduling semantics of the placement constraints, for the claims      *)

\* Nodes of a cluster: their labels and name.
Nodes ==
    [ arch : {"amd64", "arm64", "s390x"}, zone : {"a", "b"}, disk : {"ssd"},
      name : {"node-1", "node-2"} ]

NodeLabel(node, key) ==
    CASE key = archKey -> node.arch
      [] key = betaArchKey -> node.arch
      [] key = "zone" -> node.zone
      [] key = "disk" -> node.disk
      [] OTHER -> ""

TermMatches(term, node) ==
    /\ Len(term.MatchExpressions) + Len(term.MatchFields) > 0
    /\ \A e \in Range(term.MatchExpressions) : NodeLabel(node, e.Key) \in Range(e.Values)
    /\ \A f \in Range(term.MatchFields) :
          f.Key = metadataName /\ node.name \in Range(f.Values)

\* The scheduler's rule: every nodeSelector entry matches, and, when there
\* are nodeSelectorTerms, at least one of them matches.
Permits(spec, node) ==
    /\ spec.NodeName # "" => node.name = spec.NodeName
    /\ ~spec.NodeSelector.nil =>
          \A k \in DOMAIN spec.NodeSelector.m : NodeLabel(node, k) = spec.NodeSelector.m[k]
    /\ spec.NodeSelectorTerms # <<>> =>
          \E i \in DOMAIN spec.NodeSelectorTerms : TermMatches(spec.NodeSelectorTerms[i], node)

\* Architectures an image's platform list names, for any OS.
ArchitecturesOf(answer) == {p.Architecture : p \in answer.platforms}

\* Architectures of an image that run on the system OS and are schedulable.
UsableArchitecturesOf(answer) ==
    { p.Architecture : p \in
        { q \in answer.platforms :
            /\ q.OS \in {"", handler.systemOS}
            /\ handler.schedulableArchitectures # {} =>
                  q.Architecture \in handler.schedulableArchitectures } }

\* Architectures usable for each of the first n images.
CommonOfFirst(n) ==
    { a \in Range(LexOrder) : \A i \in 1..n : a \in UsableArchitecturesOf(registry[i]) }

\* A spec carries an architecture node-selector or affinity expression.
ArchConstrained(spec) ==
    \/ Has(spec.NodeSelector, archKey)
    \/ Has(spec.NodeSelector, betaArchKey)
    \/ \E i \in DOMAIN spec.NodeSelectorTerms :
          \E e \in Range(spec.NodeSelectorTerms[i].MatchExpressions) :
              e.Key \in {archKey, betaArchKey}

Denied ==
    /\ ~response.allowed
    /\ response.message = NoCommonArch
    /\ ~response.patched

\* C1: a workload admitted after its images were resolved is only permitted
\* on nodes whose architecture every image's platform list names.
C1_PermitsOnlyCommonArchitectures ==
    (rpc = "admitted" /\ outcome.decision \in {"node-selector-set", "node-affinity-add"})
        => \A n \in Nodes :
              Permits(podSpec, n) =>
                  \A i \in DOMAIN registry : n.arch \in ArchitecturesOf(registry[i])

\* C5 as stated: once at least one image is resolved and the resolved images
\* have no usable architecture in common, the request is denied.
C5_DeniedOnceOneImageResolved ==
    (rpc = "admitted" /\ outcome.resolved >= 1 /\ CommonOfFirst(outcome.resolved) = {})
        => Denied

\* C5 amended: if every image of the workload was resolved (and there is at
\* least one) and the images have no usable architecture in common, the
\* request is denied with the no-common-architecture message and no patch.
C5_DeniedWhenAllImagesResolved ==
    (/\ rpc = "admitted"
     /\ outcome.lookups >= 1
     /\ outcome.resolved = Len(registry)
     /\ CommonOfFirst(Len(registry)) = {})
        => Denied

C5_Witness ==
    /\ rpc = "admitted"
    /\ outcome.resolved = 2
    /\ Len(registry) = 2
    /\ UsableArchitecturesOf(registry[1]) # {}
    /\ UsableArchitecturesOf(registry[2]) # {}
    /\ CommonOfFirst(2) = {}
    /\ Denied

\* C6: when a registry lookup fails the request is allowed and the workload
\* gets no architecture node-selector or affinity expression.
C6_RegistryErrorNeverDenies ==
    (rpc # "new" /\ outcome.failed)
        => /\ response.allowed
           /\ ~ArchConstrained(response.patch)
           /\ ~ArchConstrained(podSpec)

C6_Witness ==
    /\ rpc = "admitted"
    /\ outcome.failed
    /\ outcome.lookups = 2
    /\ UsableArchitecturesOf(registry[1]) = {}
    /\ response.allowed

\* A nodeSelectorTerm that addPodNodeMatchingLabels may add.
IsMatchLabelTerm(term) ==
    \E key \in Range(handler.matchNodeLabels) \cap DOMAIN podLabels :
        term = ExprTerm(key, <<podLabels[key]>>)

MatchLabelKeys == Range(handler.matchNodeLabels) \cap DOMAIN podLabels

\* `after` is `before` plus match-node-label additions at most.
OnlyMatchLabelAdditions(before, after) ==
    /\ after.NodeName = before.NodeName
    /\ after.NodeSelector.nil = before.NodeSelector.nil
    /\ DOMAIN after.NodeSelector.m \subseteq DOMAIN before.NodeSelector.m \cup MatchLabelKeys
    /\ DOMAIN before.NodeSelector.m \subseteq DOMAIN after.NodeSelector.m
    /\ \A k \in DOMAIN after.NodeSelector.m :
          IF k \in MatchLabelKeys
          THEN after.NodeSelector.m[k] = podLabels[k]
          ELSE after.NodeSelector.m[k] = before.NodeSelector.m[k]
    /\ Len(after.NodeSelectorTerms) >= Len(before.NodeSelectorTerms)
    /\ \A i \in DOMAIN after.NodeSelectorTerms :
          IF i <= Len(before.NodeSelectorTerms)
          THEN after.NodeSelectorTerms[i] = before.NodeSelectorTerms[i]
          ELSE IsMatchLabelTerm(after.NodeSelectorTerms[i])

AlreadyPinned(spec) ==
    \/ spec.NodeName # ""
    \/ ArchConstrained(spec)
    \/ \E i \in DOMAIN spec.NodeSelectorTerms :
          \E f \in Range(spec.NodeSelectorTerms[i].MatchFields) : f.Key = metadataName

\* C9: a workload that names a node or already selects an architecture is
\* returned unchanged but for match-node-label additions, and is admitted.
C9_PinnedWorkloadUnchanged ==
    (rpc = "admitted" /\ AlreadyPinned(origSpec))
        => /\ OnlyMatchLabelAdditions(origSpec, podSpec)
           /\ response.allowed
           /\ outcome.lookups = 0

C9_Witness ==
    /\ rpc = "admitted"
    /\ AlreadyPinned(origSpec)
    /\ origSpec.NodeName = ""
    /\ Has(origSpec.NodeSelector, betaArchKey)
    /\ podSpec # origSpec

\* C10: admitting the spec a first admission produced changes nothing.
C10_Idempotent ==
    rpc = "readmitted" => toJson(podSpec) = firstSpec

\* The preferred architecture in effect: the workload's own, if schedulable,
\* else the configured default.
EffectivePreferred ==
    LET own == IF preferredLabel \in DOMAIN podLabels THEN podLabels[preferredLabel] ELSE ""
    IN  IF own # "" /\ (handler.schedulableArchitectures = {}
                          \/ own \in handler.schedulableArchitectures)
        THEN own
        ELSE handler.preferredArchitecture

\* Position of an architecture name in the lexicographic order.
Rank(a) == CHOOSE i \in DOMAIN LexOrder : LexOrder[i] = a

\* The nodeSelectorTerms that carry an architecture expression.
ArchTerms(spec) ==
    { i \in DOMAIN spec.NodeSelectorTerms :
        \E e \in Range(spec.NodeSelectorTerms[i].MatchExpressions) :
            e.Key \in {archKey, betaArchKey} }

\* Every image of an unpinned workload was resolved, with a common architecture.
ResolvedWithCommon ==
    /\ rpc = "admitted"
    /\ ~AlreadyPinned(origSpec)
    /\ Len(registry) >= 1
    /\ \A i \in DOMAIN registry : ~registry[i].err
    /\ CommonOfFirst(Len(registry)) # {}

\* C11: with a non-empty intersection, a preferred architecture that lies in
\* it becomes nodeSelector[kubernetes.io/arch] and no architecture term is
\* appended; otherwise exactly one term is appended, whose kubernetes.io/arch
\* In values are the intersection in lexicographic order.
C11_SelectorOrSortedAffinity ==
    ResolvedWithCommon =>
        LET common == CommonOfFirst(Len(registry))
            n == Len(origSpec.NodeSelectorTerms)
        IN  IF EffectivePreferred \in common
            THEN /\ Has(podSpec.NodeSelector, archKey)
                 /\ podSpec.NodeSelector.m[archKey] = EffectivePreferred
                 /\ ArchTerms(podSpec) = {}
            ELSE /\ ~Has(podSpec.NodeSelector, archKey)
                 /\ ArchTerms(podSpec) = {n + 1}
                 /\ LET term == podSpec.NodeSelectorTerms[n + 1]
                        values == term.MatchExpressions[1].Values
                    IN  /\ Len(term.MatchExpressions) = 1
                        /\ term.MatchFields = <<>>
                        /\ term.MatchExpressions[1].Key = archKey
                        /\ term.MatchExpressions[1].Operator = "In"
                        /\ Range(values) = common
                        /\ Len(values) = Cardinality(common)
                        /\ \A i, j \in DOMAIN values :
                              i < j => Rank(values[i]) < Rank(values[j])

\* An affinity term with two architectures was appended after existing terms.
C11_Witness ==
    /\ ResolvedWithCommon
    /\ Cardinality(CommonOfFirst(Len(registry))) = 2
    /\ EffectivePreferred \notin CommonOfFirst(Len(registry))
    /\ outcome.decision = "node-affinity-add"
    /\ Len(podSpec.NodeSelectorTerms) >= 2

\* C12: once the resolver has admitted a workload, each configured
\* match-node-label present on the workload with value v restricts the
\* permitted nodes to those whose label for that key is v.
C12_MatchLabelPinsNodes ==
    (rpc = "admitted" /\ response.allowed /\ origSpec.NodeName = "" /\ ~outcome.failed)
        => \A key \in MatchLabelKeys : \A n \in Nodes :
              Permits(podSpec, n) => NodeLabel(n, key) = podLabels[key]


\* The workload's labels without the pod-level preference.
WithoutPreferred(labels) == [k \in DOMAIN labels \ {preferredLabel} |-> labels[k]]

\* C26: when the workload's preferred architecture is not schedulable, the
\* response (patch and warning) is that of the same workload without the
\* label.
C26_UnschedulablePreferenceIgnored ==
    (/\ rpc = "admitted"
     /\ preferredLabel \in DOMAIN podLabels
     /\ ~isArchSupported(handler, podLabels[preferredLabel]))
        => response = HandlePod(handler, WithoutPreferred(podLabels), origSpec, registry).response

\* C27: with a non-empty intersection that lacks the preferred architecture
\* the request is allowed and the affinity term listing the intersection is
\* patched in; the response warns "could not select preferred arch: <arch>"
\* when the preference is the workload's own (and schedulable), and carries
\* no warning when it is the configured default.
C27_WarnsUnlessDefault ==
    (ResolvedWithCommon /\ EffectivePreferred # ""
        /\ EffectivePreferred \notin CommonOfFirst(Len(registry)))
        => /\ response.allowed
           /\ response.patched
           /\ LET term == response.patch.NodeSelectorTerms[Len(origSpec.NodeSelectorTerms) + 1]
              IN  /\ term.MatchExpressions[1].Key = archKey
                  /\ Range(term.MatchExpressions[1].Values) = CommonOfFirst(Len(registry))
           /\ response.warning =
                  IF /\ preferredLabel \in DOMAIN podLabels
                     /\ EffectivePreferred = podLabels[preferredLabel]
                     /\ isArchSupported(handler, podLabels[preferredLabel])
                  THEN <<"could not select preferred arch: ", EffectivePreferred>>
                  ELSE <<>>

\* The workload prefers a schedulable architecture that its images lack and
\* is admitted with the affinity and the warning.
C27_Witness ==
    /\ ResolvedWithCommon
    /\ preferredLabel \in DOMAIN podLabels
    /\ EffectivePreferred = podLabels[preferredLabel]
    /\ EffectivePreferred \notin CommonOfFirst(Len(registry))
    /\ handler.preferredArchitecture # ""
    /\ response.allowed
    /\ response.warning # <<>>


\* C28: a request handled without a decoder, or whose patched workload
\* cannot be serialised, is answered with an HTTP 400 error that carries a
\* diagnostic.
C28_BadRequestAnswered ==
    (/\ admitted.handled
     /\ \/ ~decoder
        \/ /\ request.kind \in {"Pod", "DaemonSet"}
           /\ request.kind = "Pod" => request.operation = "CREATE"
           /\ request.decodable
           /\ HandlePod(handler, podLabels, origSpec, registry).response.allowed
           /\ ~request.serialisable)
        => /\ admitted.code = 400
           /\ ~admitted.allowed
           /\ admitted.message # ""

\* C29: a pod request whose operation is not CREATE is allowed without a
\* patch, without a registry lookup and without an event.
C29_PodUpdatesSkipped ==
    (admitted.handled /\ request.kind = "Pod" /\ request.operation # "CREATE")
        => /\ admitted.allowed
           /\ ~admitted.patched
           /\ admitted.lookups = 0
           /\ admitted.events = {}

\* An UPDATE of a pod that a CREATE would have patched after a lookup was
\* handled with the decoder set.
C29_Witness ==
    /\ admitted.handled
    /\ decoder
    /\ request = [kind |-> "Pod", operation |-> "UPDATE", decodable |-> TRUE,
                  serialisable |-> TRUE]
    /\ HandlePod(handler, podLabels, origSpec, registry).response.patched
    /\ HandlePod(handler, podLabels, origSpec, registry).out.lookups > 0
    /\ admitted.allowed


\* C32: when the lookup of an image fails, the workload's architecture
\* constraints stay as they were and the match-node-label additions are
\* applied all the same.
C32_RegistryErrorKeepsMatchLabels ==
    (rpc = "admitted" /\ outcome.failed)
        => /\ ArchConstrained(podSpec) = ArchConstrained(origSpec)
           /\ ArchTerms(podSpec) = ArchTerms(origSpec)
           /\ podSpec = addPodNodeMatchingLabels(handler, podLabels, origSpec)

----------------------------------------------------------------------------
(* Cache and CachedRegistry                                                *)

\* Time is counted in units of five minutes.
DefaultCleanUpPeriod == 1

\* CacheDuration the CachedRegistry is built with, in the same units.
CacheDuration == 1

\* The clock stops at MaxTime.
MaxTime == 3

\* Number of ListArchs calls made on the cached registry.
NumCalls == 4

\* Number of ListArchs calls in progress at a time (the webhook's and the
\* reconciler's worker goroutines).
MaxInFlight == 2

Calls == 1..NumCalls

\* Cache keys: imagePullSecret + ":" + image.
Keys == {"secret:image-1", "secret:image-2"}

\* The zero time.Time, which lastCleanup holds until the first sweep; the
\* process starts at least one clean-up period after it.
ZeroTime == 0
StartTime == ZeroTime + DefaultCleanUpPeriod

NoEntry == [present |-> FALSE, value |-> "", expiry |-> ZeroTime]

IdleCall == [pc |-> "idle", key |-> "", mu |-> 0, result |-> "", overlap |-> FALSE]

NoSweep == [pc |-> "idle", now |-> ZeroTime]

InitCache ==
    /\ now = StartTime
    /\ cache = [k \in Keys |-> NoEntry]
    /\ serialize = [k \in Keys |-> 0]
    /\ mutexHolder = [m \in Calls |-> 0]
    /\ cleanupAccess = FALSE
    /\ lastCleanup = ZeroTime
    /\ CleanUpPeriod = 0
    /\ calls = [c \in Calls |-> IdleCall]
    /\ cleanups = {}
    /\ sweep = NoSweep
    /\ sweepTodo = {}
    /\ sweepKey = ""
    /\ registryCalls = [k \in Keys |-> 0]
    /\ failures = [k \in Keys |-> 0]

\* Cache.Load: whether the key has an entry that has not expired.
Load(cacheKey) ==
    cache[cacheKey].present /\ now < cache[cacheKey].expiry

\* Cache.Store: the entry expires CacheDuration from now.
Store(cacheKey, value) ==
    [cache EXCEPT ![cacheKey] =
        [present |-> TRUE, value |-> value, expiry |-> now + CacheDuration]]

\* Mutant: one mutex serves every key.
LoadOrStore_OneMutex(cacheKey, c) ==
    IF \A k \in Keys : serialize[k] = 0
    THEN [k \in Keys |-> c]
    ELSE [k \in Keys |-> CHOOSE m \in {serialize[j] : j \in Keys} \ {0} : TRUE]

\* serialize.LoadOrStore(cacheKey, &sync.Mutex{}): call c's new mutex is
\* stored unless the key has one.
LoadOrStore(cacheKey, c) ==
    IF serialize[cacheKey] = 0 THEN [serialize EXCEPT ![cacheKey] = c] ELSE serialize

\* Mutant: the mutex is not waited for.
CanLock_Always(mu) == TRUE

\* serialize.Lock() returns once the mutex is free.
CanLock(mu) == mutexHolder[mu] = 0

\* What the wrapped registry returns to LoadOrCall's miss().
MissValue(ok) == IF ok THEN "platforms" ELSE "nil"

\* Mutant: the value is stored whatever miss() returned.
StoreUnlessError_Always(cacheKey, ok) == Store(cacheKey, MissValue(ok))

\* LoadOrCall after miss() returned: the value is stored unless miss failed.
StoreUnlessError(cacheKey, ok) ==
    IF ok THEN Store(cacheKey, MissValue(ok)) ELSE cache

\* The deferred `go cr.cache.CleanUp(time.Now())` of ListArchs.  CleanUp
\* goroutines that carry the same `now` are kept as one: they exclude each
\* other, and the second of them to run returns at the interval check.
SpawnCleanUp == cleanups \cup {now}

\* ListArchs(imagePullSecret, image) begins: LoadOrCall fetches or stores the
\* key's mutex.  Calls are numbered in the order they begin.
ListArchsStart(c, cacheKey) ==
    /\ calls[c].pc = "idle"
    /\ c > 1 => calls[c - 1].pc # "idle"
    /\ Cardinality({d \in Calls : calls[d].pc \in {"lock", "producing"}}) < MaxInFlight
    /\ serialize' = LoadOrStore(cacheKey, c)
    /\ calls' = [calls EXCEPT ![c] =
          [pc |-> "lock", key |-> cacheKey, mu |-> serialize'[cacheKey], result |-> "",
           overlap |-> \E d \in Calls :
                          calls[d].key = cacheKey /\ calls[d].pc \in {"lock", "producing"}]]
    /\ UNCHANGED <<now, cache, mutexHolder, cleanupAccess, lastCleanup, CleanUpPeriod,
                   cleanups, sweep, sweepTodo, sweepKey, registryCalls, failures>>
    /\ UNCHANGED othersOfCache

\* LoadOrCall takes the mutex and loads the key: on a hit it unlocks and
\* ListArchs returns; on a miss it invokes the wrapped registry.
LoadOrCallLocked(c) ==
    /\ calls[c].pc = "lock"
    /\ CanLock(calls[c].mu)
    /\ IF Load(calls[c].key)
       THEN /\ calls' = [calls EXCEPT ![c].pc = "done", ![c].result = "hit", ![c].mu = 0]
            /\ cleanups' = SpawnCleanUp
            /\ UNCHANGED <<mutexHolder, registryCalls>>
       ELSE /\ calls' = [calls EXCEPT ![c].pc = "producing"]
            /\ mutexHolder' = [mutexHolder EXCEPT ![calls[c].mu] = c]
            /\ registryCalls' = [registryCalls EXCEPT ![calls[c].key] = @ + 1]
            /\ UNCHANGED cleanups
    /\ UNCHANGED <<now, cache, serialize, cleanupAccess, lastCleanup, CleanUpPeriod,
                   sweep, sweepTodo, sweepKey, failures>>
    /\ UNCHANGED othersOfCache

\* The wrapped registry returns (ok: without error): LoadOrCall stores the
\* value on success, unlocks, and ListArchs returns.
MissReturns(c, ok) ==
    /\ calls[c].pc = "producing"
    /\ cache' = StoreUnlessError(calls[c].key, ok)
    /\ mutexHolder' = [mutexHolder EXCEPT ![calls[c].mu] = IF @ = c THEN 0 ELSE @]
    /\ calls' = [calls EXCEPT ![c].pc = "done",
                              ![c].result = IF ok THEN "miss" ELSE "err",
                              ![c].mu = 0]
    /\ failures' = [failures EXCEPT ![calls[c].key] = IF ok THEN @ ELSE @ + 1]
    /\ cleanups' = SpawnCleanUp
    /\ UNCHANGED <<now, serialize, cleanupAccess, lastCleanup, CleanUpPeriod,
                   sweep, sweepTodo, sweepKey, registryCalls>>
    /\ UNCHANGED othersOfCache

\* Mutant: every CleanUp sweeps.
tooEarly_Never(t, period) == FALSE

\* now.Before(c.lastCleanup.Add(c.CleanUpPeriod))
tooEarly(t, period) == t < lastCleanup + period

\* CleanUp(t) takes cleanupAccess, defaults the period, and either returns
\* (too early) or starts to Range over the cache.  While no CleanUp runs,
\* sweep.now keeps the argument of the call that returned last.
CleanUpBegin(t) ==
    /\ t \in cleanups
    /\ ~cleanupAccess
    /\ cleanups' = cleanups \ {t}
    /\ CleanUpPeriod' = IF CleanUpPeriod = 0 THEN DefaultCleanUpPeriod ELSE CleanUpPeriod
    /\ IF tooEarly(t, CleanUpPeriod')
       THEN /\ sweep' = [pc |-> "idle", now |-> t]
            /\ UNCHANGED <<cleanupAccess, sweepTodo>>
       ELSE /\ cleanupAccess' = TRUE
            /\ sweep' = [pc |-> "range", now |-> t]
            /\ sweepTodo' = {k \in Keys : cache[k].present}
    /\ UNCHANGED <<now, cache, serialize, mutexHolder, lastCleanup, calls, sweepKey,
                   registryCalls, failures>>
    /\ UNCHANGED othersOfCache

\* Range hands one entry to the callback, which tests its expiry.
CleanUpVisit(k) ==
    /\ sweep.pc = "range"
    /\ k \in sweepTodo
    /\ IF cache[k].present /\ sweep.now > cache[k].expiry
       THEN /\ sweep' = [sweep EXCEPT !.pc = "deleteEntry"]
            /\ sweepKey' = k
            /\ UNCHANGED sweepTodo
       ELSE /\ sweepTodo' = sweepTodo \ {k}
            /\ UNCHANGED <<sweep, sweepKey>>
    /\ UNCHANGED <<now, cache, serialize, mutexHolder, cleanupAccess, lastCleanup,
                   CleanUpPeriod, calls, cleanups, registryCalls, failures>>
    /\ UNCHANGED othersOfCache

\* c.cache.Delete(key)
CleanUpDeleteEntry ==
    /\ sweep.pc = "deleteEntry"
    /\ cache' = [cache EXCEPT ![sweepKey] = NoEntry]
    /\ sweep' = [sweep EXCEPT !.pc = "deleteLock"]
    /\ UNCHANGED <<now, serialize, mutexHolder, cleanupAccess, lastCleanup,
                   CleanUpPeriod, calls, cleanups, sweepTodo, sweepKey, registryCalls,
                   failures>>
    /\ UNCHANGED othersOfCache

\* c.serialize.Delete(key)
CleanUpDeleteLock ==
    /\ sweep.pc = "deleteLock"
    /\ serialize' = [serialize EXCEPT ![sweepKey] = 0]
    /\ sweep' = [sweep EXCEPT !.pc = "range"]
    /\ sweepTodo' = sweepTodo \ {sweepKey}
    /\ sweepKey' = ""
    /\ UNCHANGED <<now, cache, mutexHolder, cleanupAccess, lastCleanup, CleanUpPeriod,
                   calls, cleanups, registryCalls, failures>>
    /\ UNCHANGED othersOfCache

\* Range is over: lastCleanup is set and cleanupAccess released.
CleanUpEnd ==
    /\ sweep.pc = "range"
    /\ sweepTodo = {}
    /\ lastCleanup' = sweep.now
    /\ cleanupAccess' = FALSE
    /\ sweep' = [pc |-> "idle", now |-> sweep.now]
    /\ UNCHANGED <<now, cache, serialize, mutexHolder, CleanUpPeriod, calls, cleanups,
                   sweepTodo, sweepKey, registryCalls, failures>>
    /\ UNCHANGED othersOfCache

\* Time passes.
Tick ==
    /\ now < MaxTime
    /\ now' = now + 1
    /\ UNCHANGED <<cache, serialize, mutexHolder, cleanupAccess, lastCleanup,
                   CleanUpPeriod, calls, cleanups, sweep, sweepTodo, sweepKey,
                   registryCalls, failures>>
    /\ UNCHANGED othersOfCache

NextCache ==
    \/ \E c \in Calls, k \in Keys : ListArchsStart(c, k)
    \/ \E c \in Calls : LoadOrCallLocked(c)
    \/ \E c \in Calls, ok \in BOOLEAN : MissReturns(c, ok)
    \/ \E t \in cleanups : CleanUpBegin(t)
    \/ \E k \in Keys : CleanUpVisit(k)
    \/ CleanUpDeleteEntry
    \/ CleanUpDeleteLock
    \/ CleanUpEnd
    \/ Tick


----------------------------------------------------------------------------
(* PodReconciler                                                           *)

PodNames == {"pod-1", "pod-2"}

Images == {"image-1", "image-2"}

\* Image lists of a pod: GetContainerImages(InitContainers, Containers).
PodImageLists == {<<"image-1">>, <<"image-1", "image-2">>}

\* Platforms the registry reports: image-1 is multi-arch, image-2 is not.
RegistryContents ==
    [i \in Images |->
        IF i = "image-1"
        THEN {Platform("linux", "amd64"), Platform("linux", "arm64")}
        ELSE {Platform("linux", "arm64")}]

\* The cluster's nodes and their labels.
NodeLabels ==
    [n \in {"node-amd64", "node-arm64"} |->
        IF n = "node-amd64"
        THEN [k \in {archKey, "kubernetes.io/os"} |->
                 IF k = archKey THEN "amd64" ELSE "linux"]
        ELSE [k \in {betaArchKey, "beta.kubernetes.io/os"} |->
                 IF k = betaArchKey THEN "arm64" ELSE "linux"]]

NodeNames == DOMAIN NodeLabels

\* Registry lookups that may fail in one run.
MaxRegistryErrors == 1

\* Images that may be pushed again under the same name in one run.
MaxPushes == 1

\* What such a push changes: image-1 becomes a single arm64 manifest, for
\* which listArchsWithAuth reports a platform without OS, and image-2 gains
\* a platform.
ImageUpdates ==
    [i \in Images |->
        IF i = "image-1"
        THEN {Platform("", "arm64")}
        ELSE {Platform("linux", "amd64"), Platform("linux", "arm64")}]

NoPod == [exists |-> FALSE, nodeName |-> "", ready |-> FALSE, archSelection |-> FALSE,
          images |-> <<>>]

NoReconcile ==
    [pod |-> "", requeue |-> FALSE, registryError |-> FALSE, deleteCalled |-> FALSE,
     deleted |-> FALSE, skipped |-> FALSE]

InitReconciler ==
    /\ pods = [p \in PodNames |-> NoPod]
    /\ upstream = RegistryContents
    /\ queue = {}
    /\ podImages = [p \in {} |-> <<>>]
    /\ imagePlatforms = [i \in {} |-> [platforms |-> {}, refcount |-> 0]]
    /\ registryErrors = 0
    /\ lastReconcile = NoReconcile
    /\ imageCount = [e \in {} |-> 0]
    /\ pushes = 0

\* podIsReady: the pod is Running and its Ready condition is True.
podIsReady(pod) == pod.ready

isImageCached(namespacedName) == namespacedName \in DOMAIN podImages

addToCache(namespacedName, images) ==
    [n \in DOMAIN podImages \cup {namespacedName} |->
        IF n = namespacedName THEN images ELSE podImages[n]]

incrementPlatformStatistics(usage, image, platforms) ==
    [i \in DOMAIN usage \cup {image} |->
        IF i = image
        THEN [platforms |-> platforms,
              refcount |-> IF image \in DOMAIN usage THEN usage[image].refcount + 1 ELSE 1]
        ELSE usage[i]]

decrementPlatformStatistics(usage, image) ==
    IF image \notin DOMAIN usage THEN usage
    ELSE IF usage[image].refcount - 1 = 0
    THEN [i \in DOMAIN usage \ {image} |-> usage[i]]
    ELSE [usage EXCEPT ![image].refcount = @ - 1]

\* The ImageCount gauges after incrementPlatformStatistics: the entries of
\* the platforms the image no longer has are deleted, then the gauge of each
\* platform it has now is incremented (from zero when it has no entry).
incrementImageCount(count, usage, image, platforms) ==
    LET old == IF image \in DOMAIN usage THEN usage[image].platforms ELSE {}
        kept == DOMAIN count \ {<<image, platform>> : platform \in old \ platforms}
        incremented == {<<image, platform>> : platform \in platforms}
    IN  [e \in kept \cup incremented |->
            IF e \in incremented
            THEN (IF e \in kept THEN count[e] ELSE 0) + 1
            ELSE count[e]]

\* The ImageCount gauges after decrementPlatformStatistics: the gauge of each
\* platform of the image is decremented, and deleted with the last reference.
decrementImageCount(count, usage, image) ==
    IF image \notin DOMAIN usage THEN count
    ELSE LET decremented == {<<image, platform>> : platform \in usage[image].platforms}
         IN  IF usage[image].refcount - 1 = 0
             THEN [e \in DOMAIN count \ decremented |-> count[e]]
             ELSE [e \in DOMAIN count \cup decremented |->
                     IF e \in decremented
                     THEN (IF e \in DOMAIN count THEN count[e] ELSE 0) - 1
                     ELSE count[e]]

RECURSIVE decrementAllImageCounts(_, _, _, _)
decrementAllImageCounts(count, usage, images, i) ==
    IF i > Len(images) THEN count
    ELSE decrementAllImageCounts(decrementImageCount(count, usage, images[i]),
                                 decrementPlatformStatistics(usage, images[i]),
                                 images, i + 1)

RECURSIVE decrementAll(_, _, _)
decrementAll(usage, images, i) ==
    IF i > Len(images) THEN usage
    ELSE decrementAll(decrementPlatformStatistics(usage, images[i]), images, i + 1)

\* The node's architecture and OS labels, with the beta labels as fallback.
nodeArchOf(labels) ==
    IF archKey \in DOMAIN labels THEN labels[archKey]
    ELSE IF betaArchKey \in DOMAIN labels THEN labels[betaArchKey]
    ELSE ""

nodeOsOf(labels) ==
    IF "kubernetes.io/os" \in DOMAIN labels THEN labels["kubernetes.io/os"]
    ELSE IF "beta.kubernetes.io/os" \in DOMAIN labels THEN labels["beta.kubernetes.io/os"]
    ELSE ""

hasMatchingPlatform(platforms, nodeOs, nodeArch) ==
    \E platform \in platforms : platform.OS = nodeOs /\ platform.Architecture = nodeArch

\* The loop of podScheduledOnMatchingNode over the pod's images; lookups[i]
\* tells whether the i-th ListArchs succeeds.  It returns at the first error.
RECURSIVE scheduledOnMatchingNodeFrom(_, _, _, _, _, _)
scheduledOnMatchingNodeFrom(pod, lookups, usage, count, i, matching) ==
    IF i > Len(pod.images)
    THEN [err |-> FALSE, matching |-> matching, usage |-> usage, count |-> count]
    ELSE IF ~lookups[i]
    THEN [err |-> TRUE, matching |-> FALSE, usage |-> usage, count |-> count]
    ELSE LET platforms == upstream[pod.images[i]]
             labels == IF pod.nodeName # "" THEN NodeLabels[pod.nodeName]
                       ELSE [k \in {} |-> ""]
             nodeOs == nodeOsOf(labels)
             nodeArch == nodeArchOf(labels)
         IN  scheduledOnMatchingNodeFrom(
                 pod, lookups,
                 incrementPlatformStatistics(usage, pod.images[i], platforms),
                 incrementImageCount(count, usage, pod.images[i], platforms),
                 i + 1,
                 IF nodeOs # "" /\ nodeArch # ""
                       /\ ~hasMatchingPlatform(platforms, nodeOs, nodeArch)
                 THEN FALSE ELSE matching)

\* Mutant: a lookup error is swallowed and the pod taken for misplaced.
podScheduledOnMatchingNode_SwallowsError(pod, lookups) ==
    LET r == scheduledOnMatchingNodeFrom(pod, lookups, imagePlatforms, imageCount, 1, TRUE)
    IN  [r EXCEPT !.err = FALSE]

podScheduledOnMatchingNode(pod, lookups) ==
    scheduledOnMatchingNodeFrom(pod, lookups, imagePlatforms, imageCount, 1, TRUE)

Enqueue(q, p) == q \cup {p}

\* Reconcile(req) for a pod the API server no longer has.
ReconcileNotFound(p) ==
    /\ p \in queue
    /\ ~pods[p].exists
    /\ IF p \in DOMAIN podImages
       THEN /\ imagePlatforms' = decrementAll(imagePlatforms, podImages[p], 1)
            /\ imageCount' = decrementAllImageCounts(imageCount, imagePlatforms,
                                                     podImages[p], 1)
            /\ podImages' = [n \in DOMAIN podImages \ {p} |-> podImages[n]]
       ELSE UNCHANGED <<imagePlatforms, imageCount, podImages>>
    /\ queue' = queue \ {p}
    /\ lastReconcile' = [NoReconcile EXCEPT !.pod = p]
    /\ UNCHANGED <<pods, upstream, registryErrors, pushes>>
    /\ UNCHANGED othersOfReconciler

\* Reconcile(req) for a pod that is tracked already, or ready.
ReconcileSkip(p) ==
    /\ p \in queue
    /\ pods[p].exists
    /\ isImageCached(p) \/ podIsReady(pods[p])
    /\ queue' = queue \ {p}
    /\ lastReconcile' = [NoReconcile EXCEPT !.pod = p, !.skipped = TRUE]
    /\ UNCHANGED <<pods, upstream, podImages, imagePlatforms, registryErrors,
                   imageCount, pushes>>
    /\ UNCHANGED othersOfReconciler

\* Reconcile(req) when Client.Get of the pod fails (other than NotFound), or
\* Client.Get of the pod's node does: the request is queued again.
ReconcileGetError(p) ==
    /\ p \in queue
    /\ lastReconcile' = [NoReconcile EXCEPT !.pod = p, !.requeue = TRUE]
    /\ UNCHANGED <<pods, upstream, queue, podImages, imagePlatforms, registryErrors,
                   imageCount, pushes>>
    /\ UNCHANGED othersOfReconciler

\* Reconcile(req) for a pod seen for the first time.  lookups tells which
\* ListArchs calls succeed, deleteOk whether Client.Delete does.
ReconcilePod(p, lookups, deleteOk) ==
    /\ p \in queue
    /\ pods[p].exists
    /\ ~(isImageCached(p) \/ podIsReady(pods[p]))
    /\ LET r == podScheduledOnMatchingNode(pods[p], lookups)
           failed == \E i \in DOMAIN lookups : ~lookups[i]
       IN  IF r.err
           THEN /\ registryErrors < MaxRegistryErrors
                /\ registryErrors' = registryErrors + 1
                /\ imagePlatforms' = r.usage
                /\ imageCount' = r.count
                /\ lastReconcile' = [NoReconcile EXCEPT !.pod = p, !.requeue = TRUE,
                                                        !.registryError = failed]
                /\ queue' = queue
                /\ UNCHANGED <<pods, podImages>>
           ELSE /\ imagePlatforms' = r.usage
                /\ imageCount' = r.count
                /\ podImages' = addToCache(p, pods[p].images)
                /\ UNCHANGED registryErrors
                /\ IF r.matching \/ pods[p].archSelection
                   THEN /\ lastReconcile' = [NoReconcile EXCEPT !.pod = p,
                                                                !.registryError = failed]
                        /\ queue' = queue \ {p}
                        /\ UNCHANGED pods
                   ELSE /\ lastReconcile' =
                              [NoReconcile EXCEPT !.pod = p, !.deleteCalled = TRUE,
                                                  !.deleted = deleteOk,
                                                  !.registryError = failed]
                        /\ pods' = IF deleteOk THEN [pods EXCEPT ![p] = NoPod] ELSE pods
                        \* a deletion is a pod event: the pod is queued again
                        /\ queue' = IF deleteOk THEN queue ELSE queue \ {p}
    /\ UNCHANGED <<upstream, pushes>>
    /\ UNCHANGED othersOfReconciler

Reconcile(p) ==
    \/ ReconcileGetError(p)
    \/ ReconcileNotFound(p)
    \/ ReconcileSkip(p)
    \/ \E lookups \in [1..Len(pods[p].images) -> BOOLEAN], deleteOk \in BOOLEAN :
          ReconcilePod(p, lookups, deleteOk)

\* A Reconcile during which the registry and the API server answer.
ReconcileUnhindered(p) ==
    \/ ReconcileNotFound(p)
    \/ ReconcileSkip(p)
    \/ ReconcilePod(p, [i \in 1..Len(pods[p].images) |-> TRUE], TRUE)

\* A pod is created, bound to a node or not yet.
CreatePod(p, images, archSelection, nodeName) ==
    /\ ~pods[p].exists
    /\ pods' = [pods EXCEPT ![p] =
          [exists |-> TRUE, nodeName |-> nodeName, ready |-> FALSE,
           archSelection |-> archSelection, images |-> images]]
    /\ queue' = Enqueue(queue, p)
    /\ UNCHANGED <<upstream, podImages, imagePlatforms, registryErrors, lastReconcile,
                   imageCount, pushes>>
    /\ UNCHANGED othersOfReconciler

\* The scheduler binds a pod to a node.
BindPod(p, nodeName) ==
    /\ pods[p].exists
    /\ pods[p].nodeName = ""
    /\ pods' = [pods EXCEPT ![p].nodeName = nodeName]
    /\ queue' = Enqueue(queue, p)
    /\ UNCHANGED <<upstream, podImages, imagePlatforms, registryErrors, lastReconcile,
                   imageCount, pushes>>
    /\ UNCHANGED othersOfReconciler

\* The kubelet reports the pod Running and Ready.
PodBecomesReady(p) ==
    /\ pods[p].exists
    /\ pods[p].nodeName # ""
    /\ ~pods[p].ready
    /\ pods' = [pods EXCEPT ![p].ready = TRUE]
    /\ queue' = Enqueue(queue, p)
    /\ UNCHANGED <<upstream, podImages, imagePlatforms, registryErrors, lastReconcile,
                   imageCount, pushes>>
    /\ UNCHANGED othersOfReconciler

\* A user or a controller deletes a pod.
RemovePod(p) ==
    /\ pods[p].exists
    /\ pods' = [pods EXCEPT ![p] = NoPod]
    /\ queue' = Enqueue(queue, p)
    /\ UNCHANGED <<upstream, podImages, imagePlatforms, registryErrors, lastReconcile,
                   imageCount, pushes>>
    /\ UNCHANGED othersOfReconciler

\* The informer's periodic resync queues a pod again.
Resync(p) ==
    /\ pods[p].exists
    /\ p \notin queue
    /\ queue' = Enqueue(queue, p)
    /\ UNCHANGED <<pods, upstream, podImages, imagePlatforms, registryErrors,
                   lastReconcile, imageCount, pushes>>
    /\ UNCHANGED othersOfReconciler

\* An image is pushed again under the same name with other platforms.
PushImage(image) ==
    /\ pushes < MaxPushes
    /\ upstream[image] # ImageUpdates[image]
    /\ upstream' = [upstream EXCEPT ![image] = ImageUpdates[image]]
    /\ pushes' = pushes + 1
    /\ UNCHANGED <<pods, queue, podImages, imagePlatforms, registryErrors,
                   lastReconcile, imageCount>>
    /\ UNCHANGED othersOfReconciler

NextReconciler ==
    \/ \E p \in PodNames : Reconcile(p)
    \/ \E p \in PodNames, images \in PodImageLists, sel \in BOOLEAN,
          n \in NodeNames \cup {""} : CreatePod(p, images, sel, n)
    \/ \E p \in PodNames, n \in NodeNames : BindPod(p, n)
    \/ \E p \in PodNames : PodBecomesReady(p)
    \/ \E p \in PodNames : RemovePod(p)
    \/ \E p \in PodNames : Resync(p)

\* Pods come and go, bound at creation or not at all, while images change
\* in the registry.
NextReconcilerAndPushes ==
    \/ \E p \in PodNames : Reconcile(p)
    \/ \E p \in PodNames, images \in PodImageLists, sel \in BOOLEAN,
          n \in NodeNames \cup {""} : CreatePod(p, images, sel, n)
    \/ \E p \in PodNames : RemovePod(p)
    \/ \E image \in Images : PushImage(image)

----------------------------------------------------------------------------
(* PlainRegistry.ListArchs, listArchsWithAuth and the Authenticators       *)

\* Most candidates one authenticator has for an image.
MaxTokens == 1

\* Most descriptors of a manifest list.
MaxDescriptors == 2

\* A chain that asks the host's docker configuration first.
Chain_DockerConfigFirst ==
    <<"docker-config", "ImagePullSecret", "kubelet", "containerD", "anonymous">>

\* NewAuthenticator: the authenticators in the order Authenticate runs them.
Chain == <<"ImagePullSecret", "kubelet", "containerD", "docker-config", "anonymous">>

\* Authenticators whose `candidates <-` is one case of a select with
\* `<-ctx.Done()`; the kubelet provider sends unconditionally.
GuardedSend == {"ImagePullSecret", "containerD", "docker-config", "anonymous"}

\* What each authenticator finds for the image.  The anonymous authenticator
\* has one candidate, or none for an image of a private registry.
CandidateCounts ==
    {e \in [{Chain[i] : i \in 1..Len(Chain)} -> 0..MaxTokens] : e["anonymous"] <= 1}

\* Descriptors of a manifest list and how the registry answers the request
\* for the manifest each one points to.
Descriptors ==
    [Platform : {Platform("linux", "arm64"), Platform("linux", "unknown")},
     response : {"ok", "not-found", "status", "transport-error"}]

DescriptorLists ==
    UNION {[1..n -> Descriptors] : n \in 0..MaxDescriptors}

\* How the registry answers the manifest request of one attempt.
ManifestAnswers ==
    {[kind |-> k, Architecture |-> "", Manifests |-> <<>>] :
        k \in {"transport-error", "status", "decode-error"}}
    \cup {[kind |-> "manifest", Architecture |-> a, Manifests |-> <<>>] :
            a \in {"", "arm64"}}
    \cup {[kind |-> "list", Architecture |-> "", Manifests |-> m] :
            m \in DescriptorLists}

\* A listArchsWithAuth that requests every descriptor of the list.
Requested_All(manifests) == 1..Len(manifests)

\* The descriptors listArchsWithAuth requests: not of the "unknown"
\* architecture and, with SchedulableArchitectures set, of one of them.
Requested(manifests) ==
    {i \in 1..Len(manifests) :
        /\ manifests[i].Platform.Architecture # "unknown"
        /\ schedulable # {} => manifests[i].Platform.Architecture \in schedulable}

FailsRequest(d) == d.response \in {"status", "transport-error"}

\* listArchsWithAuth.  The collector of a manifest list returns
\* `nil, err` at the first failed descriptor, and `err` there is the nil
\* error of the decoded manifest request.
listArchsWithAuth(answer) ==
    CASE answer.kind \in {"transport-error", "status", "decode-error"} ->
            [platforms |-> {}, err |-> answer.kind]
      [] answer.kind = "manifest" ->
            [platforms |-> IF answer.Architecture # ""
                           THEN {Platform("", answer.Architecture)} ELSE {},
             err |-> ""]
      [] OTHER ->
            IF \E i \in Requested(answer.Manifests) : FailsRequest(answer.Manifests[i])
            THEN [platforms |-> {}, err |-> ""]
            ELSE [platforms |-> {answer.Manifests[i].Platform :
                                   i \in {j \in Requested(answer.Manifests) :
                                            answer.Manifests[j].response = "ok"}},
                  err |-> ""]

NoCandidate == [authenticator |-> "", n |-> 0]

NoAttempt == [candidate |-> NoCandidate, failedDescriptor |-> FALSE,
              platforms |-> {}, err |-> ""]

NoResult == [returned |-> FALSE, platforms |-> {}, err |-> ""]

InitClient ==
    /\ schedulable \in {{}, {"amd64"}}
    /\ emits \in CandidateCounts
    /\ producer = [index |-> 0, pending |-> 0, sent |-> 0, closed |-> FALSE]
    /\ consumer = [pc |-> "range", auth |-> NoCandidate, err |-> ""]
    /\ ctxDone = FALSE
    /\ attempts = <<>>
    /\ lastAttempt = NoAttempt
    /\ result = NoResult

\* Authenticators.Authenticate moves to the next authenticator.  The kubelet
\* authenticator runs its provider with exec.CommandContext, which fails
\* under a cancelled context.
RunAuthenticator ==
    /\ ~producer.closed
    /\ producer.pending = 0
    /\ producer.index < Len(Chain)
    /\ LET a == Chain[producer.index + 1]
       IN producer' = [producer EXCEPT
                         !.index = @ + 1,
                         !.sent = 0,
                         !.pending = IF a = "kubelet" /\ ctxDone THEN 0 ELSE emits[a]]
    /\ UNCHANGED <<schedulable, emits, consumer, ctxDone, attempts, lastAttempt, result>>
    /\ UNCHANGED othersOfClient

\* `candidates <- token` meets `for auth := range candidates`.
Handoff ==
    /\ producer.pending > 0
    /\ consumer.pc = "range"
    /\ producer' = [producer EXCEPT !.pending = @ - 1, !.sent = @ + 1]
    /\ consumer' = [consumer EXCEPT
                      !.pc = "attempt",
                      !.auth = [authenticator |-> Chain[producer.index],
                                n |-> producer.sent + 1]]
    /\ UNCHANGED <<schedulable, emits, ctxDone, attempts, lastAttempt, result>>
    /\ UNCHANGED othersOfClient

\* `case <-ctx.Done(): return` of an authenticator that selects on it.
EmitCancelled ==
    /\ producer.pending > 0
    /\ ctxDone
    /\ Chain[producer.index] \in GuardedSend
    /\ producer' = [producer EXCEPT !.pending = 0]
    /\ UNCHANGED <<schedulable, emits, consumer, ctxDone, attempts, lastAttempt, result>>
    /\ UNCHANGED othersOfClient

\* `close(candidates)` after Authenticate returned.
CloseCandidates ==
    /\ ~producer.closed
    /\ producer.pending = 0
    /\ producer.index = Len(Chain)
    /\ producer' = [producer EXCEPT !.closed = TRUE]
    /\ UNCHANGED <<schedulable, emits, consumer, ctxDone, attempts, lastAttempt, result>>
    /\ UNCHANGED othersOfClient

DefaultPlatforms == {Platform("linux", "amd64")}

\* One iteration of the loop of ListArchs: listArchsWithAuth with the
\* received candidate, then `continue` on an error and `return` otherwise
\* (the deferred cancel() runs).
Attempt(answer) ==
    /\ consumer.pc = "attempt"
    /\ LET r == listArchsWithAuth(answer)
       IN /\ attempts' = Append(attempts, [candidate |-> consumer.auth,
                                           failed |-> r.err # ""])
          /\ lastAttempt' =
                [candidate |-> consumer.auth,
                 failedDescriptor |->
                    /\ answer.kind = "list"
                    /\ \E i \in Requested(answer.Manifests) :
                          FailsRequest(answer.Manifests[i]),
                 platforms |-> r.platforms,
                 err |-> r.err]
          /\ IF r.err # ""
             THEN /\ consumer' = [consumer EXCEPT !.pc = "range", !.err = r.err]
                  /\ UNCHANGED <<ctxDone, result>>
             ELSE /\ consumer' = [consumer EXCEPT !.pc = "returned", !.err = ""]
                  /\ result' = [returned |-> TRUE,
                                platforms |-> IF r.platforms = {}
                                              THEN DefaultPlatforms
                                              ELSE r.platforms,
                                err |-> ""]
                  /\ ctxDone' = TRUE
    /\ UNCHANGED <<schedulable, emits, producer>>
    /\ UNCHANGED othersOfClient

\* A ListArchs that falls back to the default platform at the end of the chain.
exhausted_Default(err) ==
    [returned |-> TRUE, platforms |-> {Platform("linux", "amd64")}, err |-> ""]

\* What ListArchs returns once `candidates` is closed.
exhausted(err) ==
    [returned |-> TRUE, platforms |-> {},
     err |-> IF err # "" THEN err ELSE "Unable to find image architecture"]

\* The range loop ends on the closed channel.
CandidatesClosed ==
    /\ consumer.pc = "range"
    /\ producer.closed
    /\ consumer' = [consumer EXCEPT !.pc = "returned"]
    /\ result' = exhausted(consumer.err)
    /\ ctxDone' = TRUE
    /\ UNCHANGED <<schedulable, emits, producer, attempts, lastAttempt>>
    /\ UNCHANGED othersOfClient

NextClient ==
    \/ RunAuthenticator
    \/ Handoff
    \/ EmitCancelled
    \/ CloseCandidates
    \/ \E answer \in ManifestAnswers : Attempt(answer)
    \/ CandidatesClosed

----------------------------------------------------------------------------
(* WWWAuthenticateTransport.RoundTrip on PlainRegistry.authenticateCache   *)
(* (the Cache above, whose keys are then sha1(repository path +            *)
(* Authorization header) and whose entries are stored WithExpiry)          *)

\* Number of requests sent through the transport.
NumRoundTrips == 4

\* Largest expires_in of a token response, in the clock's unit.
MaxExpiresIn == 1

RoundTrips == 1..NumRoundTrips

\* Cache keys of the requests: one repository path and Authorization header.
TransportKeys == {"secret:image-1"}

IdleRoundTrip == [pc |-> "idle", key |-> "", cachedAuth |-> FALSE, promised |-> FALSE,
                  exchanged |-> FALSE]

DoneRoundTrip == [IdleRoundTrip EXCEPT !.pc = "done"]

NoReturn == [sent |-> <<>>, failed |-> "", resp |-> "", err |-> ""]

InitRoundTrips ==
    /\ roundTrips = [r \in RoundTrips |-> IdleRoundTrip]
    /\ granted = [k \in Keys |-> ZeroTime]
    /\ lastReturn = NoReturn

\* Cache.Store with the WithExpiry mutation.
StoreWithExpiry(cacheKey, value, expiry) ==
    [cache EXCEPT ![cacheKey] = [present |-> TRUE, value |-> value, expiry |-> expiry]]

\* RoundTrip computes the cache key, registers the deferred clean-up and
\* loads the key.  Requests are numbered in the order they begin.
RoundTripLoad(r, cacheKey) ==
    /\ roundTrips[r].pc = "idle"
    /\ r > 1 => roundTrips[r - 1].pc # "idle"
    /\ Cardinality({q \in RoundTrips : roundTrips[q].pc \notin {"idle", "done"}})
          < MaxInFlight
    /\ roundTrips' = [roundTrips EXCEPT ![r] =
          [pc |-> "probe", key |-> cacheKey, cachedAuth |-> Load(cacheKey),
           promised |-> now < granted[cacheKey], exchanged |-> FALSE]]
    /\ UNCHANGED <<granted, lastReturn>>
    /\ UNCHANGED cacheVars
    /\ UNCHANGED othersOfTransport

\* What RoundTrip returns: the requests it sent through the base transport,
\* the one of them that failed there, and the response and error returned.
Returned(sent, failed, resp, err) ==
    [sent |-> sent, failed |-> failed, resp |-> resp, err |-> err]

\* The error RoundTrip returns when the token request fails in the base
\* transport: `return resp, err` with the nil err of NewWWWAuthenticateRequest.
tokenRequestError == ""

\* The HEAD probe returns from the base transport: an error, a 401 with a
\* challenge, a 401 whose challenge does not parse, or any other response.
Probe(r, answer) ==
    /\ roundTrips[r].pc = "probe"
    /\ CASE answer = "error" ->
              /\ roundTrips' = [roundTrips EXCEPT ![r] = DoneRoundTrip]
              /\ lastReturn' = Returned(<<"probe">>, "probe", "nil", "probe")
              /\ cleanups' = SpawnCleanUp
         [] answer = "bad-challenge" ->
              /\ roundTrips' = [roundTrips EXCEPT ![r] = DoneRoundTrip]
              /\ lastReturn' = Returned(<<"probe">>, "", "probe", "challenge")
              /\ cleanups' = SpawnCleanUp
         [] answer = "unauthorized" ->
              /\ roundTrips' = [roundTrips EXCEPT ![r].pc = "token"]
              /\ UNCHANGED <<lastReturn, cleanups>>
         [] OTHER ->
              /\ roundTrips' = [roundTrips EXCEPT ![r].pc = "real"]
              /\ UNCHANGED <<lastReturn, cleanups>>
    /\ UNCHANGED granted
    /\ UNCHANGED <<now, cache, serialize, mutexHolder, cleanupAccess, lastCleanup,
                   CleanUpPeriod, calls, sweep, sweepTodo, sweepKey, registryCalls,
                   failures>>
    /\ UNCHANGED othersOfTransport

\* The token request returns from the base transport: an error, a status
\* other than 200, a body that does not decode, or a token with expires_in.
TokenExchange(r, answer, expiresIn) ==
    /\ roundTrips[r].pc = "token"
    /\ answer # "token" => expiresIn = 0
    /\ IF answer = "token"
       THEN /\ roundTrips' = [roundTrips EXCEPT ![r].pc = "real", ![r].exchanged = TRUE]
            /\ IF expiresIn > 0
               THEN /\ cache' = StoreWithExpiry(roundTrips[r].key, "token", now + expiresIn)
                    /\ granted' = [granted EXCEPT ![roundTrips[r].key] = now + expiresIn]
               ELSE UNCHANGED <<cache, granted>>
            /\ UNCHANGED <<lastReturn, cleanups>>
       ELSE /\ roundTrips' = [roundTrips EXCEPT ![r] = DoneRoundTrip]
            /\ lastReturn' =
                  Returned(<<"probe", "token">>,
                           IF answer = "error" THEN "token" ELSE "",
                           "probe",
                           IF answer = "error" THEN tokenRequestError ELSE "")
            /\ cleanups' = SpawnCleanUp
            /\ UNCHANGED <<cache, granted>>
    /\ UNCHANGED <<now, serialize, mutexHolder, cleanupAccess, lastCleanup,
                   CleanUpPeriod, calls, sweep, sweepTodo, sweepKey, registryCalls,
                   failures>>
    /\ UNCHANGED othersOfTransport

\* The request itself returns from the base transport, and RoundTrip returns.
RealRequest(r, ok) ==
    /\ roundTrips[r].pc = "real"
    /\ roundTrips' = [roundTrips EXCEPT ![r] = DoneRoundTrip]
    /\ lastReturn' =
          Returned(IF roundTrips[r].exchanged THEN <<"probe", "token", "real">>
                                              ELSE <<"probe", "real">>,
                   IF ok THEN "" ELSE "real",
                   IF ok THEN "real" ELSE "nil",
                   IF ok THEN "" ELSE "real")
    /\ cleanups' = SpawnCleanUp
    /\ UNCHANGED granted
    /\ UNCHANGED <<now, cache, serialize, mutexHolder, cleanupAccess, lastCleanup,
                   CleanUpPeriod, calls, sweep, sweepTodo, sweepKey, registryCalls,
                   failures>>
    /\ UNCHANGED othersOfTransport

NextTransport ==
    \/ \E r \in RoundTrips, k \in TransportKeys : RoundTripLoad(r, k)
    \/ \E r \in RoundTrips :
          \E answer \in {"error", "bad-challenge", "unauthorized", "accepted"} :
             Probe(r, answer)
    \/ \E r \in RoundTrips :
          \E answer \in {"error", "status", "decode-error", "token"} :
             \E expiresIn \in 0..MaxExpiresIn : TokenExchange(r, answer, expiresIn)
    \/ \E r \in RoundTrips, ok \in BOOLEAN : RealRequest(r, ok)
    \/ \E t \in cleanups : CleanUpBegin(t)
    \/ \E k \in Keys : CleanUpVisit(k)
    \/ CleanUpDeleteEntry
    \/ CleanUpDeleteLock
    \/ CleanUpEnd
    \/ Tick

----------------------------------------------------------------------------
(* RateLimitedRoundTripper                                                 *)

\* Number of RoundTrip calls made on the rate-limited transport.
NumRequests == 4

\* Largest ConcurrentCallsLimit the transport is configured with.
MaxLimit == 2

Requests == 1..NumRequests

\* KeyFunc(req): by default the method and the URL.
RequestKeys == {"GET url-1", "GET url-2"}

NoChan == [key |-> "", workers |-> 0, serving |-> {}, closed |-> FALSE]

IdleRequest == [pc |-> "idle", key |-> "", chan |-> 0]

InitRate ==
    /\ ConcurrentCallsLimit \in -1..MaxLimit
    /\ requestsChans = [k \in RequestKeys |-> 0]
    /\ inFlights = [k \in RequestKeys |-> 0]
    /\ chans = [c \in Requests |-> NoChan]
    /\ requests = [r \in Requests |-> IdleRequest]

\* Mutant: one goroutine more than the limit serves a channel.
workersOf_OneMore(limit) == IF limit < 1 THEN 2 ELSE limit + 1

\* The number of handleRequests goroutines getRequestChan starts for a new
\* channel.
workersOf(limit) == IF limit < 1 THEN 1 ELSE limit

\* RoundTrip calls getRequestChan(key): under t.access the key's channel is
\* looked up, or made and given its goroutines, and inFlights[key] counted
\* up.  A new channel is named after the call that makes it.  The calls are
\* interchangeable, so they enter in the order of their numbers.
getRequestChan(r, key) ==
    /\ requests[r].pc = "idle"
    /\ r > 1 => requests[r - 1].pc # "idle"
    /\ LET chan == IF requestsChans[key] # 0 THEN requestsChans[key] ELSE r
       IN /\ requestsChans' = [requestsChans EXCEPT ![key] = chan]
          /\ chans' = IF requestsChans[key] # 0 THEN chans
                       ELSE [chans EXCEPT ![r] =
                               [key |-> key, workers |-> workersOf(ConcurrentCallsLimit),
                                serving |-> {}, closed |-> FALSE]]
          /\ requests' = [requests EXCEPT ![r] = [pc |-> "send", key |-> key, chan |-> chan]]
    /\ inFlights' = [inFlights EXCEPT ![key] = @ + 1]
    /\ UNCHANGED ConcurrentCallsLimit
    /\ UNCHANGED othersOfRate

\* `chan <- &serialized` meets the `range` of a handleRequests goroutine
\* that is not in a call: the goroutine calls the next RoundTripper.
handleRequests(r) ==
    /\ requests[r].pc = "send"
    /\ ~chans[requests[r].chan].closed
    /\ Cardinality(chans[requests[r].chan].serving) < chans[requests[r].chan].workers
    /\ chans' = [chans EXCEPT ![requests[r].chan].serving = @ \cup {r}]
    /\ requests' = [requests EXCEPT ![r].pc = "wait"]
    /\ UNCHANGED <<ConcurrentCallsLimit, requestsChans, inFlights>>
    /\ UNCHANGED othersOfRate

\* The next RoundTripper returns, the goroutine calls wg.Done() and goes
\* back to its range, and wg.Wait() of RoundTrip is released.
upstreamReturns(r) ==
    /\ requests[r].pc = "wait"
    /\ chans' = [chans EXCEPT ![requests[r].chan].serving = @ \ {r}]
    /\ requests' = [requests EXCEPT ![r].pc = "done"]
    /\ UNCHANGED <<ConcurrentCallsLimit, requestsChans, inFlights>>
    /\ UNCHANGED othersOfRate

\* Mutant: done(key) closes the key's channel whatever is left in flight.
done_CloseAlways(r) ==
    /\ requests[r].pc = "done"
    /\ LET key == requests[r].key
           ok == requestsChans[key] # 0
       IN /\ inFlights' = [inFlights EXCEPT ![key] = IF ok THEN @ - 1 ELSE @]
          /\ chans' = IF ok THEN [chans EXCEPT ![requestsChans[key]].closed = TRUE]
                       ELSE chans
          /\ requestsChans' = [requestsChans EXCEPT ![key] = 0]
    /\ requests' = [requests EXCEPT ![r].pc = "returned"]
    /\ UNCHANGED ConcurrentCallsLimit
    /\ UNCHANGED othersOfRate

\* The deferred done(key): inFlights[key] is counted down and, at zero, the
\* key's channel closed and both map entries deleted.
done(r) ==
    /\ requests[r].pc = "done"
    /\ LET key == requests[r].key
           ok == requestsChans[key] # 0
           left == IF ok THEN inFlights[key] - 1 ELSE inFlights[key]
       IN /\ inFlights' = [inFlights EXCEPT ![key] = left]
          /\ IF left = 0
             THEN /\ chans' = IF ok THEN [chans EXCEPT ![requestsChans[key]].closed = TRUE]
                                    ELSE chans
                  /\ requestsChans' = [requestsChans EXCEPT ![key] = 0]
             ELSE UNCHANGED <<chans, requestsChans>>
    /\ requests' = [requests EXCEPT ![r].pc = "returned"]
    /\ UNCHANGED ConcurrentCallsLimit
    /\ UNCHANGED othersOfRate

NextRate ==
    \/ \E r \in Requests, key \in RequestKeys : getRequestChan(r, key)
    \/ \E r \in Requests : handleRequests(r)
    \/ \E r \in Requests : upstreamReturns(r)
    \/ \E r \in Requests : done(r)

----------------------------------------------------------------------------
(* parseImage, imageMatchesLoginPattern and AnonymousAuthenticator         *)
(* Strings are sequences of tokens; ".", ":", "/", "@" and "*" are tokens   *)
(* of their own and every other token stands for a run of letters.         *)

\* Longest list of private-registry patterns.
MaxPatterns == 2

\* Longest list of registry-proxy rules.
MaxProxies == 2

Contains(s, token) == \E i \in 1..Len(s) : s[i] = token

Index(s, token) == CHOOSE i \in 1..Len(s) : s[i] = token /\ \A j \in 1..(i - 1) : s[j] # token

HasPrefix(s, prefix) == Len(prefix) <= Len(s) /\ SubSeq(s, 1, Len(prefix)) = prefix

\* strings.SplitN(s, sep, 2)
SplitN2(s, sep) ==
    IF Contains(s, sep)
    THEN <<SubSeq(s, 1, Index(s, sep) - 1), SubSeq(s, Index(s, sep) + 1, Len(s))>>
    ELSE <<s>>

RECURSIVE Split(_, _)
\* strings.Split(s, sep)
Split(s, sep) ==
    IF Contains(s, sep)
    THEN <<SubSeq(s, 1, Index(s, sep) - 1)>> \o Split(SubSeq(s, Index(s, sep) + 1, Len(s)), sep)
    ELSE <<s>>

RECURSIVE Match(_, _)
\* filepath.Match(pattern, name): "*" matches any run of tokens other than
\* the path separator, every other token matches itself.
Match(pattern, name) ==
    IF pattern = <<>> THEN name = <<>>
    ELSE IF Head(pattern) = "*"
    THEN \E i \in 0..Len(name) :
            /\ ~Contains(SubSeq(name, 1, i), "/")
            /\ Match(Tail(pattern), SubSeq(name, i + 1, Len(name)))
    ELSE /\ name # <<>>
         /\ Head(name) = Head(pattern)
         /\ Match(Tail(pattern), Tail(name))

\* The path test of imageMatchesLoginPattern.
pathRejects(image, matchPath) == matchPath # <<>> /\ HasPrefix(image, matchPath)

imageMatchesLoginPattern(registryName, image, pattern) ==
    LET regPath == Split(pattern, "/")
        matchReg == regPath[1]
        matchPath == IF Len(regPath) > 1 THEN regPath[2] ELSE <<>>
        matchHostPort == Split(matchReg, ":")
        matchHost == matchHostPort[1]
        matchPort == IF Len(matchHostPort) > 1 THEN matchHostPort[2] ELSE <<>>
        regHostPort == Split(registryName, ":")
    IN IF Match(matchHost, regHostPort[1])
       THEN IF matchPort # <<>> /\ (Len(regHostPort) < 2 \/ regHostPort[2] # matchPort)
            THEN FALSE
            ELSE ~pathRejects(image, matchPath)
       ELSE FALSE

RECURSIVE proxied_FirstMatch(_, _, _)
\* Mutant: the loop over the proxies ends at the first rule that matches.
proxied_FirstMatch(registryName, proxies, i) ==
    IF i > Len(proxies) THEN registryName
    ELSE IF Match(proxies[i].Registry, registryName) THEN proxies[i].Proxy
    ELSE proxied_FirstMatch(registryName, proxies, i + 1)

RECURSIVE proxied(_, _, _)
\* The loop over r.Proxies of parseImage, from rule i on.
proxied(registryName, proxies, i) ==
    IF i > Len(proxies) THEN registryName
    ELSE proxied(IF Match(proxies[i].Registry, registryName) THEN proxies[i].Proxy
                 ELSE registryName,
                 proxies, i + 1)

DockerIO == <<"docker", ".", "io">>

\* parseImage before its loop over the proxies.
splitImage(image) ==
    LET bySlash == SplitN2(image, "/")
        hasRegistry == /\ Contains(bySlash[1], ".") \/ Contains(bySlash[1], ":")
                       /\ Len(bySlash) > 1
        named == IF hasRegistry THEN bySlash[1] ELSE <<>>
        rest == IF hasRegistry THEN bySlash[2] ELSE image
        byAt == SplitN2(rest, "@")
        byColon == SplitN2(byAt[1], ":")
        registryName == IF named = <<>> THEN DockerIO ELSE named
    IN [registry |-> registryName,
        image |-> IF registryName = DockerIO /\ ~Contains(byColon[1], "/")
                  THEN <<"library", "/">> \o byColon[1] ELSE byColon[1],
        tag |-> IF Len(byColon) = 1 THEN <<"latest">> ELSE byColon[2],
        hasRef |-> Len(byAt) > 1]

parseImage(image, proxies) ==
    [splitImage(image) EXCEPT !.registry = proxied(@, proxies, 1)]

ImageReferences ==
    { <<"ubuntu">>,
      <<"registry", ".", "io", "/", "team", "/", "app">>,
      <<"registry", ".", "io", "/", "other", "/", "app">>,
      <<"app", ".", "k8s", ".", "io", "/", "team", "/", "app", ":", "v1">>,
      <<"k8s", ".", "io", ":", "5000", "/", "app", "@", "sha256">> }

LoginPatterns ==
    { <<"*", ".", "k8s", ".", "io">>,
      <<"*", ".", "io">>,
      <<"registry", ".", "io", "/", "team">>,
      <<"k8s", ".", "io", ":", "5000">>,
      <<"mirror", ".", "tld">> }

RegistryProxies ==
    { [Registry |-> DockerIO, Proxy |-> <<"mirror", ".", "tld">>],
      [Registry |-> <<"mirror", ".", "tld">>, Proxy |-> <<"proxy", ".", "tld">>],
      [Registry |-> <<"*", ".", "io">>, Proxy |-> <<"mirror", ".", "tld">>] }

NotParsed == [done |-> FALSE, registry |-> <<>>, image |-> <<>>, tag |-> <<>>, hasRef |-> FALSE]

NotRun == [ran |-> FALSE, skippedBy |-> 0, emitted |-> FALSE]

InitImage ==
    /\ PrivateRegistryPatterns \in SeqsUpTo(LoginPatterns, MaxPatterns)
    /\ Proxies \in SeqsUpTo(RegistryProxies, MaxProxies)
    /\ reference \in ImageReferences
    /\ parsed = NotParsed
    /\ anonymous = NotRun

\* ListArchs parses its image.
ParseImage ==
    /\ ~parsed.done
    /\ parsed' = [done |-> TRUE,
                  registry |-> parseImage(reference, Proxies).registry,
                  image |-> parseImage(reference, Proxies).image,
                  tag |-> parseImage(reference, Proxies).tag,
                  hasRef |-> parseImage(reference, Proxies).hasRef]
    /\ UNCHANGED <<PrivateRegistryPatterns, Proxies, reference, anonymous>>
    /\ UNCHANGED othersOfImage

\* AnonymousAuthenticator.Authenticate with what ListArchs parsed: it
\* returns at the first pattern that matches, and otherwise sends the empty
\* token unless the context is done first.
AnonymousAuthenticate(cancelled) ==
    /\ parsed.done
    /\ ~anonymous.ran
    /\ LET matching == {i \in 1..Len(PrivateRegistryPatterns) :
                          imageMatchesLoginPattern(parsed.registry, parsed.image,
                                                   PrivateRegistryPatterns[i])}
       IN anonymous' =
            IF matching # {}
            THEN [ran |-> TRUE, emitted |-> FALSE,
                  skippedBy |-> CHOOSE i \in matching : \A j \in matching : i <= j]
            ELSE [ran |-> TRUE, emitted |-> ~cancelled, skippedBy |-> 0]
    /\ UNCHANGED <<PrivateRegistryPatterns, Proxies, reference, parsed>>
    /\ UNCHANGED othersOfImage

NextImage ==
    \/ ParseImage
    \/ \E cancelled \in BOOLEAN : AnonymousAuthenticate(cancelled)

----------------------------------------------------------------------------
(* Properties of the cached registry                                       *)

CallsOn(k) == {c \in Calls : calls[c].key = k}

Producing(k) == {c \in CallsOn(k) : calls[c].pc = "producing"}

\* Every call so far was made before the first entry could expire.
ColdStart == now < StartTime + CacheDuration

PastLoad(k) == {c \in CallsOn(k) : calls[c].pc \in {"producing", "done"}}

C3_OneProducerPerKey ==
    \A k \in Keys : Cardinality(Producing(k)) <= 1

\* C4: a failed produce is never stored, and a call is served from the cache
\* only if a call for the same key succeeded; failing calls each invoke the
\* underlying registry.
C4_FailedProduceNeverStored ==
    /\ \A k \in Keys : cache[k].present => cache[k].value # MissValue(FALSE)
    /\ \A d \in Calls :
          calls[d].result = "hit" =>
              \E c \in CallsOn(calls[d].key) : calls[c].result = "miss"
    /\ \A k \in Keys : failures[k] <= registryCalls[k]

\* Two failing calls with one key, the second begun after the first ended,
\* invoked the registry twice.
C4_Witness ==
    \E c, d \in Calls :
        /\ c < d
        /\ calls[c].key = calls[d].key
        /\ calls[c].result = "err" /\ calls[d].result = "err"
        /\ ~calls[d].overlap
        /\ registryCalls[calls[c].key] = 2
        /\ ~cache[calls[c].key].present

\* C21: a call that waits in LoadOrCall waits for a mutex held by a producer
\* of its own key; a producer that runs for another key never holds it.
C21_DistinctKeysNeverBlock ==
    \A c \in Calls :
        (calls[c].pc = "lock" /\ mutexHolder[calls[c].mu] # 0)
            => calls[mutexHolder[calls[c].mu]].key = calls[c].key

\* Two calls with different keys are inside the wrapped registry at once.
C21_Witness ==
    \E c, d \in Calls :
        /\ calls[c].key # calls[d].key
        /\ calls[c].pc = "producing"
        /\ calls[d].pc = "producing"

\* C22: a CleanUp called with a time less than the clean-up period (five
\* minutes, one unit, when unset) after the last sweep's does not sweep: only
\* a call at least one period later ranges over the cache, deletes entries
\* and moves lastCleanup, so sweeps are at least one period apart.
C22_AtMostOneSweepPerInterval ==
    /\ [](sweep.pc # "idle" => sweep.now >= lastCleanup + DefaultCleanUpPeriod)
    /\ [][lastCleanup' # lastCleanup =>
              lastCleanup' >= lastCleanup + DefaultCleanUpPeriod]_cacheVars
    /\ [][(\E k \in Keys : cache[k].present /\ ~cache'[k].present) =>
              /\ sweep.pc = "deleteEntry"
              /\ sweep.now >= lastCleanup + DefaultCleanUpPeriod]_cacheVars

\* A CleanUp called with a time before the last sweep's returned without
\* sweeping, and an expired entry is still in the cache.
C22_Witness ==
    /\ sweep.pc = "idle"
    /\ ~cleanupAccess
    /\ ZeroTime < sweep.now
    /\ sweep.now < lastCleanup
    /\ \E k \in Keys : cache[k].present /\ now > cache[k].expiry

\* C31: a clean-up sweep removes an entry only if the entry's expiry is
\* before the sweep's `now`, also when a load-or-call stores an entry for
\* the key while the sweep runs.
C31_SweepRemovesOnlyExpired ==
    [][\A k \in Keys :
          (cache[k].present /\ ~cache'[k].present) => sweep.now > cache[k].expiry]_cacheVars

----------------------------------------------------------------------------
(* Properties of the pod reconciler                                        *)

\* The pod is bound to a node whose (os, architecture) is not among the
\* platforms of one of its images, and has no architecture selector.
Misplaced(p) ==
    /\ pods[p].exists
    /\ pods[p].nodeName # ""
    /\ ~pods[p].archSelection
    /\ \E i \in DOMAIN pods[p].images :
          Platform(nodeOsOf(NodeLabels[pods[p].nodeName]),
                   nodeArchOf(NodeLabels[pods[p].nodeName]))
              \notin upstream[pods[p].images[i]]

\* C7: a pod with no architecture selector, bound to a node that one of its
\* images does not support, is eventually deleted (at the latest once the
\* kubelet would report it Running and Ready, which ends the reconciler's
\* interest in it).
C7_MisplacedPodEventuallyDeleted ==
    \A p \in PodNames : Misplaced(p) ~> (~pods[p].exists \/ pods[p].ready)

\* C8: a reconciliation in which an image's platform lookup failed ends with
\* a requeue and without a deletion.
C8_LookupFailureRequeues ==
    lastReconcile.registryError =>
        /\ lastReconcile.requeue
        /\ ~lastReconcile.deleteCalled
        /\ ~lastReconcile.deleted

\* A lookup failed while reconciling a pod that sits on a mismatching node.
C8_Witness ==
    /\ lastReconcile.registryError
    /\ lastReconcile.requeue
    /\ Misplaced(lastReconcile.pod)

\* The tracked pods whose image list names the image.
TrackedPodsOf(image) ==
    {p \in DOMAIN podImages :
        \E i \in 1..Len(podImages[p]) : podImages[p][i] = image}

\* C19: the refcount of every image of the map is the number of tracked pods
\* that reference it, no image of the map has refcount zero, and every image
\* a tracked pod references is in the map.
C19_RefcountCountsTrackedPods ==
    /\ \A image \in DOMAIN imagePlatforms :
          /\ imagePlatforms[image].refcount = Cardinality(TrackedPodsOf(image))
          /\ imagePlatforms[image].refcount # 0
    /\ \A image \in Images :
          TrackedPodsOf(image) # {} => image \in DOMAIN imagePlatforms

\* C20: the gauge of every platform an image of the map currently has
\* equals the image's refcount, and there is no gauge entry for any other
\* (image, platform): not for a platform the image no longer has, not for an
\* image that is not in the map.
C20_GaugesEqualRefcount ==
    /\ \A image \in DOMAIN imagePlatforms :
          \A platform \in imagePlatforms[image].platforms :
             /\ <<image, platform>> \in DOMAIN imageCount
             /\ imageCount[<<image, platform>>] = imagePlatforms[image].refcount
    /\ \A e \in DOMAIN imageCount :
          /\ e[1] \in DOMAIN imagePlatforms
          /\ e[2] \in imagePlatforms[e[1]].platforms

----------------------------------------------------------------------------
(* Properties of the registry client                                       *)

\* C13: after ListArchs returned, the goroutine that runs the authenticators
\* eventually terminates (it leaves Authenticate and closes the channel); no
\* producer stays blocked on sending a candidate.
C13_AuthenticatorsTerminate == result.returned ~> producer.closed

\* The credential sources in the order the chain is documented to try them.
DocumentedOrder ==
    <<"ImagePullSecret", "kubelet", "containerD", "docker-config", "anonymous">>

RECURSIVE CandidatesFrom(_)
\* The candidates of the authenticators from the i-th of the documented
\* order on, each authenticator's in the order it emits them.
CandidatesFrom(i) ==
    IF i > Len(DocumentedOrder) THEN <<>>
    ELSE [n \in 1..emits[DocumentedOrder[i]] |->
            [authenticator |-> DocumentedOrder[i], n |-> n]]
         \o CandidatesFrom(i + 1)

AllCandidates == CandidatesFrom(1)

AllFailed == \A i \in 1..Len(attempts) : attempts[i].failed

EveryCandidateFailed ==
    /\ AllFailed
    /\ Len(attempts) = Len(AllCandidates)

C16_FailedDescriptorFailsAttempt ==
    lastAttempt.failedDescriptor =>
        /\ lastAttempt.err # ""
        /\ ~(result.returned /\ result.err = "")

----------------------------------------------------------------------------
(* Properties of the WWW-Authenticate transport                            *)

\* C17: a request that begins before the token stored last for its cache
\* key (repository path and Authorization header) expires exchanges no
\* token unless the registry answered 401 to the probe that carried the
\* cached token.
C17_NoExchangeWhileTokenValid ==
    \A r \in RoundTrips :
        (roundTrips[r].promised /\ roundTrips[r].pc = "token")
            => roundTrips[r].cachedAuth

\* C18: when the base transport fails the probe, the token request or the
\* request itself, that request is the last RoundTrip sends and its error
\* is the error RoundTrip returns.
C18_TransportErrorReturnedVerbatim ==
    lastReturn.failed # "" =>
        /\ lastReturn.sent[Len(lastReturn.sent)] = lastReturn.failed
        /\ lastReturn.err = lastReturn.failed

\* The pod's node has an architecture that every image of the pod supports
\* for the node's OS, a platform without OS counting for every OS.
OnSupportedNode(pod) ==
    /\ pod.nodeName # ""
    /\ \A i \in DOMAIN pod.images :
          \E platform \in upstream[pod.images[i]] :
              /\ platform.Architecture = nodeArchOf(NodeLabels[pod.nodeName])
              /\ platform.OS \in {"", nodeOsOf(NodeLabels[pod.nodeName])}

\* C33: Reconcile never deletes a pod that is bound to a node whose
\* architecture every image of the pod supports for the node's OS, a
\* platform with an empty OS matching any OS.
C33_PodOnSupportedNodeKept ==
    [][\A p \in PodNames :
          (/\ pods[p].exists
           /\ ~pods'[p].exists
           /\ lastReconcile' = [NoReconcile EXCEPT !.pod = p, !.deleteCalled = TRUE,
                                                   !.deleted = TRUE]
           /\ p \notin DOMAIN podImages
           /\ p \in DOMAIN podImages')
              => ~OnSupportedNode(pods[p])]_reconcilerVars

\* C34: ListArchs returns the synthesised default platform only when the
\* attempts before the last failed, each with an empty platform list, and
\* the last attempt succeeded (no request of it failed) with an empty list.
C34_DefaultOnlyAfterEmptySuccess ==
    (result.returned /\ result.err = "" /\ result.platforms = DefaultPlatforms)
        => /\ attempts # <<>>
           /\ \A i \in 1..(Len(attempts) - 1) : attempts[i].failed
           /\ lastAttempt.candidate = attempts[Len(attempts)].candidate
           /\ lastAttempt.platforms = {}
           /\ lastAttempt.err = ""
           /\ ~lastAttempt.failedDescriptor

----------------------------------------------------------------------------
(* Properties of the rate-limited transport                                *)

\* The calls of the next RoundTripper in progress for a key.
UpstreamCalls(key) ==
    {r \in Requests :
        /\ requests[r].key = key
        /\ \E c \in Requests : r \in chans[c].serving}

\* C23: for every key at most ConcurrentCallsLimit calls of the next
\* RoundTripper are in progress at any time, at most one when the limit is
\* unset or below one.
C23_UpstreamCallsWithinLimit ==
    \A key \in RequestKeys :
        Cardinality(UpstreamCalls(key)) <=
            (IF ConcurrentCallsLimit < 1 THEN 1 ELSE ConcurrentCallsLimit)

\* A key has as many upstream calls in progress as the limit allows and a
\* further RoundTrip for the key waits to be served.
C23_Witness ==
    \E key \in RequestKeys :
        /\ ConcurrentCallsLimit = 2
        /\ Cardinality(UpstreamCalls(key)) = 2
        /\ \E r \in Requests : requests[r].key = key /\ requests[r].pc = "send"

\* The calls of a key that have entered RoundTrip's getRequestChan and whose
\* deferred done has not run.
InFlightCalls(key) ==
    {r \in Requests : requests[r].key = key /\ requests[r].pc \in {"send", "wait", "done"}}

\* C38: in every interleaving the in-flight counter of a key is the number
\* of calls of that key that have entered and not completed, a closed
\* channel is the channel of no such call, and so no call is at its send on
\* a closed channel.
C38_NoSendOnClosedChannel ==
    /\ \A key \in RequestKeys : inFlights[key] = Cardinality(InFlightCalls(key))
    /\ \A c \in Requests :
          chans[c].closed => \A r \in InFlightCalls(chans[c].key) : requests[r].chan # c
    /\ \A r \in Requests :
          requests[r].pc = "send" => ~chans[requests[r].chan].closed

\* Two calls of a key shared a channel that is closed now, and a later call
\* of the same key is at its send on a new channel.
C38_Witness ==
    \E c \in Requests, r1, r2, r3 \in Requests :
        /\ chans[c].closed
        /\ r1 # r2
        /\ requests[r1].pc = "returned" /\ requests[r1].chan = c
        /\ requests[r2].pc = "returned" /\ requests[r2].chan = c
        /\ requests[r3].pc = "send" /\ requests[r3].key = chans[c].key
        /\ requests[r3].chan # c

----------------------------------------------------------------------------
(* Properties of image references                                          *)

\* The domain parts of both hosts are as many and each part matches.
partsMatch(matchHost, host) ==
    /\ Len(Split(matchHost, ".")) = Len(Split(host, "."))
    /\ \A i \in 1..Len(Split(matchHost, ".")) :
           Match(Split(matchHost, ".")[i], Split(host, ".")[i])

\* The match of an image and a matchImages pattern as the kubelet defines
\* it: the hosts match part by part, a port of the pattern is the port of
\* the registry, and the path of the pattern is a prefix of the image path.
kubeletMatch(registryName, image, pattern) ==
    LET regPath == SplitN2(pattern, "/")
        matchPath == IF Len(regPath) > 1 THEN regPath[2] ELSE <<>>
        matchHostPort == SplitN2(regPath[1], ":")
        regHostPort == SplitN2(registryName, ":")
    IN /\ partsMatch(matchHostPort[1], regHostPort[1])
       /\ Len(matchHostPort) > 1 =>
              Len(regHostPort) > 1 /\ regHostPort[2] = matchHostPort[2]
       /\ HasPrefix(image, matchPath)

\* C24: for an image that matches one of the private-registry patterns the
\* anonymous authenticator emits no candidate.
C24_NoAnonymousTokenForPrivateImage ==
    (/\ anonymous.ran
     /\ \E i \in 1..Len(PrivateRegistryPatterns) :
            kubeletMatch(parsed.registry, parsed.image, PrivateRegistryPatterns[i]))
        => ~anonymous.emitted

\* The host that parseImage hands to its loop over the proxies.
namedRegistry == splitImage(reference).registry

\* The rules whose glob matches the host the image names.
matchingNamed == {i \in 1..Len(Proxies) : Match(Proxies[i].Registry, namedRegistry)}

\* C25 as stated: only the first rule that matches the named host is
\* applied, and no rule is matched against the host it was rewritten to.
C25_OnlyFirstMatchingRule ==
    parsed.done =>
        parsed.registry =
            IF matchingNamed = {} THEN namedRegistry
            ELSE Proxies[CHOOSE i \in matchingNamed : \A j \in matchingNamed : i <= j].Proxy

\* C25 amended: every rule is tried in the configured order against the
\* host as the rules before it left it, so a rule that matches the host an
\* earlier rule rewrote to rewrites it again; the last rule that matched
\* this way decides the registry.
C25_RulesChain ==
    parsed.done =>
        \E hosts \in [0..Len(Proxies) ->
                        {namedRegistry} \cup {Proxies[i].Proxy : i \in 1..Len(Proxies)}] :
            /\ hosts[0] = namedRegistry
            /\ \A i \in 1..Len(Proxies) :
                   hosts[i] = IF Match(Proxies[i].Registry, hosts[i - 1])
                              THEN Proxies[i].Proxy ELSE hosts[i - 1]
            /\ parsed.registry = hosts[Len(Proxies)]

\* Two rules rewrote the host one after the other.
C25_Witness ==
    /\ parsed.done
    /\ Len(Proxies) = 2
    /\ Match(Proxies[1].Registry, namedRegistry)
    /\ Proxies[1].Proxy # namedRegistry
    /\ Match(Proxies[2].Registry, Proxies[1].Proxy)
    /\ parsed.registry = Proxies[2].Proxy
    /\ parsed.registry # Proxies[1].Proxy

\* The port and the path that a matchImages pattern carries: what follows
\* the ":" of its host and what follows its first "/".
portOf(hostPort) ==
    IF Len(SplitN2(hostPort, ":")) > 1 THEN SplitN2(hostPort, ":")[2] ELSE <<>>

patternPort(pattern) == portOf(SplitN2(pattern, "/")[1])

patternPath(pattern) ==
    IF Len(SplitN2(pattern, "/")) > 1 THEN SplitN2(pattern, "/")[2] ELSE <<>>

\* C36: the pattern that made the anonymous authenticator skip an image
\* has, when it carries a port, the port of the image's registry, and,
\* when it carries a path, a path that is a prefix of the image path.
C36_PortAndPathRestrictMatch ==
    anonymous.skippedBy # 0 =>
        LET pattern == PrivateRegistryPatterns[anonymous.skippedBy]
        IN /\ patternPort(pattern) # <<>>
                => portOf(parsed.registry) = patternPort(pattern)
           /\ patternPath(pattern) # <<>>
                => HasPrefix(parsed.image, patternPath(pattern))

\* The port half of the same statement.
C36_PortRestrictsMatch ==
    anonymous.skippedBy # 0 =>
        LET pattern == PrivateRegistryPatterns[anonymous.skippedBy]
        IN patternPort(pattern) # <<>>
              => portOf(parsed.registry) = patternPort(pattern)

\* The host of a pattern, as imageMatchesLoginPattern cuts it out.
matchHostOf(pattern) == Split(Split(pattern, "/")[1], ":")[1]

\* C30: a pattern host matches a registry host exactly when both have the
\* same number of domain parts and each part matches, a "*" standing for
\* one part.
C30_GlobMatchesOneSegment ==
    anonymous.ran =>
        \A i \in 1..Len(PrivateRegistryPatterns) :
            Match(matchHostOf(PrivateRegistryPatterns[i]), Split(parsed.registry, ":")[1])
                <=> partsMatch(matchHostOf(PrivateRegistryPatterns[i]),
                               Split(parsed.registry, ":")[1])

----------------------------------------------------------------------------
(* deletePodAndNotifyUser and upsertPodDeletionEvent                       *)

\* The calls of deletePodAndNotifyUser that are followed.
MaxDeletions == 3

\* The pods the reconciler deletes, each with the name of its controller
\* owner ("" for a pod without one).
DeletedPods ==
    { [Namespace |-> "ns-1", Name |-> "pod-1", Controller |-> "deployment-1"],
      [Namespace |-> "ns-1", Name |-> "pod-2", Controller |-> "deployment-1"],
      [Namespace |-> "ns-2", Name |-> "pod-1", Controller |-> ""] }

NameSuffixes == {"-deleted-pod", "-failed-to-delete-pod"}

\* The objects an event can be about, and each of them with each suffix.
EventOwners ==
    {[Namespace |-> p.Namespace, Name |-> p.Name] : p \in DeletedPods}
    \cup {[Namespace |-> p.Namespace, Name |-> p.Controller] :
            p \in {q \in DeletedPods : q.Controller # ""}}

NotifiedOwners == EventOwners \X NameSuffixes

NoEvent == [Count |-> 0, Series |-> 0, Message |-> <<>>, Type |-> "",
            InvolvedObject |-> ""]

\* owner.GetName() + "-" + nameSuffix
eventName(ownerName, nameSuffix) == <<ownerName, "-", nameSuffix>>

\* Mutant: the mutate function starts every count again.
mutateFn_Restart(evt, owner, podName, eventType, messagePrefix) ==
    [Count |-> 1, Series |-> 1,
     Message |-> (IF evt.Message = <<>> THEN <<messagePrefix>> ELSE evt.Message)
                 \o <<"\n", podName>>,
     Type |-> eventType,
     InvolvedObject |-> owner.Name]

\* The mutate function that upsertPodDeletionEvent hands to CreateOrUpdate.
mutateFn(evt, owner, podName, eventType, messagePrefix) ==
    [Count |-> evt.Count + 1,
     Series |-> evt.Series + 1,
     Message |-> (IF evt.Message = <<>> THEN <<messagePrefix>> ELSE evt.Message)
                 \o <<"\n", podName>>,
     Type |-> eventType,
     InvolvedObject |-> owner.Name]

\* upsertPodDeletionEvent: CreateOrUpdate gets the event of that name,
\* mutates the empty event and creates it when there is none, mutates the
\* one it got and updates it otherwise.  An error of the API server is
\* logged and leaves the events as they are.
upsertPodDeletionEvent(evts, owner, podName, eventType, nameSuffix, messagePrefix, apiErr) ==
    LET key == [Namespace |-> owner.Namespace, Name |-> eventName(owner.Name, nameSuffix)]
        evt == IF key \in DOMAIN evts THEN evts[key] ELSE NoEvent
    IN IF apiErr THEN evts
       ELSE [k \in DOMAIN evts \cup {key} |->
               IF k = key THEN mutateFn(evt, owner, podName, eventType, messagePrefix)
               ELSE evts[k]]

InitEvents ==
    /\ apiEvents = [k \in {} |-> NoEvent]
    /\ accepted = [o \in NotifiedOwners |-> 0]
    /\ deleteCalls = 0

\* deletePodAndNotifyUser: the pod is deleted, or the delete fails, and the
\* event of the pod and the event of its controller owner are upserted.
deletePodAndNotifyUser(pod, deleteErr, podEventErr, ownerEventErr) ==
    /\ deleteCalls < MaxDeletions
    /\ deleteCalls' = deleteCalls + 1
    /\ LET eventType == IF deleteErr THEN "Warning" ELSE "Normal"
           nameSuffix == IF deleteErr THEN "-failed-to-delete-pod" ELSE "-deleted-pod"
           messagePrefix == IF deleteErr THEN "Failed to delete pod(s)"
                            ELSE "Pod(s) was deleted"
           podOwner == [Namespace |-> pod.Namespace, Name |-> pod.Name]
           controller == [Namespace |-> pod.Namespace, Name |-> pod.Controller]
           afterPod == upsertPodDeletionEvent(apiEvents, podOwner, pod.Name, eventType,
                                              nameSuffix, messagePrefix, podEventErr)
           upserted == (IF podEventErr THEN {} ELSE {<<podOwner, nameSuffix>>})
                       \cup (IF pod.Controller = "" \/ ownerEventErr THEN {}
                             ELSE {<<controller, nameSuffix>>})
       IN /\ apiEvents' =
                IF pod.Controller = "" THEN afterPod
                ELSE upsertPodDeletionEvent(afterPod, controller, pod.Name, eventType,
                                            nameSuffix, messagePrefix, ownerEventErr)
          /\ accepted' = [o \in NotifiedOwners |->
                            IF o \in upserted THEN accepted[o] + 1 ELSE accepted[o]]
    /\ UNCHANGED othersOfEvents

NextEvents ==
    \E pod \in DeletedPods, deleteErr, podEventErr, ownerEventErr \in BOOLEAN :
        deletePodAndNotifyUser(pod, deleteErr, podEventErr, ownerEventErr)

----------------------------------------------------------------------------
(* Properties of the deletion events                                       *)

\* The event of an owner and a suffix: in the owner's namespace, named
\* <owner>-<suffix>.
eventKeyOf(o) == [Namespace |-> o[1].Namespace, Name |-> <<o[1].Name, "-", o[2]>>]

\* C37: each owner and suffix has at most one event, under the name
\* <owner>-<suffix>; it exists from the first accepted upsert on, and its
\* count and series count are the number of upserts accepted for that
\* owner and suffix: 1 after the first, one more after each further one.
C37_EventsCoalesceByOwner ==
    /\ \A o \in NotifiedOwners :
          IF accepted[o] = 0 THEN eventKeyOf(o) \notin DOMAIN apiEvents
          ELSE /\ eventKeyOf(o) \in DOMAIN apiEvents
               /\ apiEvents[eventKeyOf(o)].Count = accepted[o]
               /\ apiEvents[eventKeyOf(o)].Series = accepted[o]
    /\ Cardinality(DOMAIN apiEvents)
          = Cardinality({o \in NotifiedOwners : accepted[o] > 0})

\* A controller whose two pods were deleted has one event of count 2, next
\* to the events of count 1 of each pod.
C37_Witness ==
    /\ accepted[<<[Namespace |-> "ns-1", Name |-> "deployment-1"], "-deleted-pod">>] = 2
    /\ accepted[<<[Namespace |-> "ns-1", Name |-> "pod-1"], "-deleted-pod">>] = 1
    /\ accepted[<<[Namespace |-> "ns-1", Name |-> "pod-2"], "-deleted-pod">>] = 1
    /\ Cardinality(DOMAIN apiEvents) = 3

----------------------------------------------------------------------------
(* WWWAuthenticateTransport.RoundTrip: cache keys, tokens and hosts        *)
(* Headers, repository paths and cache keys are sequences of tokens.  The  *)
(* calls follow one another and no entry expires while they run.           *)

\* The RoundTrip calls that are followed.
MaxTrips == 2

RegistryHosts == {"registry-a", "registry-b"}

\* The repository path of req.URL.Path, between "/v2/" and "/manifests/<ref>".
RepositoryPaths == {<<"team", "/", "app">>, <<"team", "/", "web">>}

\* The Authorization header the authenticator candidate put on the request.
AuthorizationHeaders == {<<>>, <<"Basic", " ", "credentials">>}

\* sha1 over the repository path followed by the Authorization header: equal
\* for equal concatenations.
cacheKeyOf(image, authorization) == image \o authorization

\* The token that the token endpoint named by a host's challenge issues.
tokenOf(host) == <<"token-of", host>>

\* auth := kind + " " + authResponse.Token
authOf(kind, token) == <<kind, " ">> \o token

NoTrip == [pc |-> "idle", host |-> "", image |-> <<>>, cacheKey |-> <<>>,
           header |-> <<>>, cachedAuth |-> FALSE, cachedAuthHeader |-> <<>>]

Sent(host, kind, authorization) ==
    [host |-> host, kind |-> kind, Authorization |-> authorization]

InitScope ==
    /\ authenticateCache = [k \in {} |-> <<>>]
    /\ sentRequests = {}
    /\ trip = NoTrip
    /\ trips = 0

\* RoundTrip up to the HEAD request: the cache key is computed and loaded,
\* and the HEAD request goes to the host of the request with the cached
\* header when there is one, with the header of the request otherwise.
RoundTripHead(host, image, authorization) ==
    /\ trip.pc = "idle"
    /\ trips < MaxTrips
    /\ trips' = trips + 1
    /\ LET cacheKey == cacheKeyOf(image, authorization)
           cachedAuth == cacheKey \in DOMAIN authenticateCache
           cachedAuthHeader == IF cachedAuth THEN authenticateCache[cacheKey] ELSE <<>>
       IN /\ trip' = [pc |-> "head", host |-> host, image |-> image,
                      cacheKey |-> cacheKey, header |-> authorization,
                      cachedAuth |-> cachedAuth, cachedAuthHeader |-> cachedAuthHeader]
          /\ sentRequests' = sentRequests \cup
                {Sent(host, "HEAD", IF cachedAuth THEN cachedAuthHeader ELSE authorization)}
    /\ UNCHANGED authenticateCache
    /\ UNCHANGED othersOfScope

\* The HEAD request fails, or is answered with a 401 and a challenge, or
\* with another status: then the request itself is sent, with the cached
\* header when there is one.
HeadAnswered(answer) ==
    /\ trip.pc = "head"
    /\ CASE answer = "error" ->
              /\ trip' = NoTrip
              /\ UNCHANGED sentRequests
         [] answer = "unauthorized" ->
              /\ trip' = [trip EXCEPT !.pc = "token"]
              /\ sentRequests' = sentRequests \cup {Sent(trip.host, "token", <<>>)}
         [] OTHER ->
              /\ trip' = NoTrip
              /\ sentRequests' = sentRequests \cup
                    {Sent(trip.host, "GET",
                          IF trip.cachedAuth THEN trip.cachedAuthHeader ELSE trip.header)}
    /\ UNCHANGED <<authenticateCache, trips>>
    /\ UNCHANGED othersOfScope

\* The token endpoint of the host's challenge answers: without a token
\* RoundTrip returns the 401; with a token the header is set on the request,
\* stored under the cache key when expires_in is positive, and the request
\* is sent.
TokenAnswered(tokenIssued, expires) ==
    /\ trip.pc = "token"
    /\ trip' = NoTrip
    /\ IF tokenIssued
       THEN /\ sentRequests' = sentRequests \cup
                  {Sent(trip.host, "GET", authOf("Bearer", tokenOf(trip.host)))}
            /\ authenticateCache' =
                  IF expires
                  THEN [k \in DOMAIN authenticateCache \cup {trip.cacheKey} |->
                          IF k = trip.cacheKey THEN authOf("Bearer", tokenOf(trip.host))
                          ELSE authenticateCache[k]]
                  ELSE authenticateCache
       ELSE UNCHANGED <<sentRequests, authenticateCache>>
    /\ UNCHANGED trips
    /\ UNCHANGED othersOfScope

NextScope ==
    \/ \E host \in RegistryHosts, image \in RepositoryPaths,
          authorization \in AuthorizationHeaders :
             RoundTripHead(host, image, authorization)
    \/ \E answer \in {"error", "unauthorized", "other"} : HeadAnswered(answer)
    \/ \E tokenIssued \in BOOLEAN, expires \in BOOLEAN : TokenAnswered(tokenIssued, expires)

----------------------------------------------------------------------------
(* Properties of tokens and hosts                                          *)

\* C39: a request that carries the bearer token of a registry's token
\* endpoint is a request to that registry's host.
C39_TokenStaysWithItsRegistry ==
    \A s \in sentRequests :
        \A host \in RegistryHosts :
            s.Authorization = authOf("Bearer", tokenOf(host)) => s.host = host

----------------------------------------------------------------------------
(* The descriptor goroutines of listArchsWithAuth                          *)

\* Descriptors of a manifest list whose pointed manifests are verified, and
\* how the registry answers the request for each of them.
VerifiedDescriptors ==
    [Platform : {Platform("linux", "amd64"), Platform("linux", "arm64"),
                 Platform("linux", "unknown")},
     response : {"ok", "not-found", "status", "transport-error"}]

\* The longest manifest list whose descriptors are verified.
MaxVerified == 3

VerifiedLists ==
    UNION {[1..n -> VerifiedDescriptors] : n \in 0..MaxVerified}

\* The manifest request was answered with a manifest list: one goroutine
\* was started for each requested descriptor, all sending on the unbuffered
\* outChan, and the function is about to range over outChan.
InitFanout ==
    /\ manifestList \in VerifiedLists
    /\ verifiers = [i \in Requested(manifestList) |-> "request"]
    /\ collector = [pc |-> "range", platforms |-> {}, failed |-> FALSE]
    /\ outChanClosed = FALSE

\* The goroutine of descriptor i gets the answer to its request.  On 404 it
\* returns; otherwise it has a result to send on outChan.
verifyDescriptor(i) ==
    /\ verifiers[i] = "request"
    /\ verifiers' = [verifiers EXCEPT
                       ![i] = IF manifestList[i].response = "not-found"
                              THEN "done" ELSE "send"]
    /\ UNCHANGED <<manifestList, collector, outChanClosed>>
    /\ UNCHANGED othersOfFanout

\* The send of goroutine i meets the receive of the range loop, which
\* returns `nil, err` on an erroneous result and appends the platform
\* otherwise.
collect(i) ==
    /\ collector.pc = "range"
    /\ verifiers[i] = "send"
    /\ verifiers' = [verifiers EXCEPT ![i] = "done"]
    /\ collector' =
          IF FailsRequest(manifestList[i])
          THEN [pc |-> "returned", platforms |-> {}, failed |-> TRUE]
          ELSE [collector EXCEPT
                  !.platforms = @ \cup {manifestList[i].Platform}]
    /\ UNCHANGED <<manifestList, outChanClosed>>
    /\ UNCHANGED othersOfFanout

\* wg.Wait() returns once every goroutine is done, and outChan is closed.
closeOutChan ==
    /\ ~outChanClosed
    /\ \A i \in DOMAIN verifiers : verifiers[i] = "done"
    /\ outChanClosed' = TRUE
    /\ UNCHANGED <<manifestList, verifiers, collector>>
    /\ UNCHANGED othersOfFanout

\* The range loop ends on the closed channel and the platforms are returned.
rangeEnds ==
    /\ collector.pc = "range"
    /\ outChanClosed
    /\ collector' = [collector EXCEPT !.pc = "returned"]
    /\ UNCHANGED <<manifestList, verifiers, outChanClosed>>
    /\ UNCHANGED othersOfFanout

NextFanout ==
    \/ \E i \in DOMAIN verifiers : verifyDescriptor(i)
    \/ \E i \in DOMAIN verifiers : collect(i)
    \/ closeOutChan
    \/ rangeEnds

----------------------------------------------------------------------------
(* Properties of the descriptor goroutines                                 *)

\* The descriptors whose pointed manifest the attempt asks the registry for.
SubRequested(d) ==
    /\ d.Platform.Architecture # "unknown"
    /\ schedulable = {} \/ d.Platform.Architecture \in schedulable

\* C35: when every descriptor sub-request of a manifest list returned 200
\* or 404, the platforms of the attempt are exactly those of the descriptors
\* whose architecture is not "unknown", is schedulable when schedulable
\* architectures are configured, and whose sub-request returned 200.
C35_PlatformsOfVerifiedDescriptors ==
    (/\ collector.pc = "returned"
     /\ \A i \in DOMAIN manifestList :
           SubRequested(manifestList[i])
               => manifestList[i].response \in {"ok", "not-found"})
        => collector.platforms
             = {manifestList[i].Platform :
                  i \in {j \in DOMAIN manifestList :
                           /\ SubRequested(manifestList[j])
                           /\ manifestList[j].response = "ok"}}

\* A list with a descriptor that was found, one that was not and one that
\* is skipped, with schedulable architectures configured.
C35_Witness ==
    /\ collector.pc = "returned"
    /\ ~collector.failed
    /\ schedulable # {}
    /\ collector.platforms # {}
    /\ \E i, j \in DOMAIN manifestList :
          /\ SubRequested(manifestList[i]) /\ manifestList[i].response = "not-found"
          /\ ~SubRequested(manifestList[j]) /\ manifestList[j].response = "ok"

\* C40: once the manifest-list attempt has returned, every descriptor
\* goroutine of the attempt eventually terminates; none stays blocked on
\* the send of its result.
C40_VerifiersTerminate ==
    (collector.pc = "returned") ~> (\A i \in DOMAIN verifiers : verifiers[i] = "done")

----------------------------------------------------------------------------
(* Specifications                                                          *)

vars == <<resolverVars, cacheVars, reconcilerVars, clientVars, transportVars, rateVars, imageVars,
          admissionVars, fanoutVars, eventVars, scopeVars>>

\* The resolver before any request.
IdleResolver ==
    /\ handler = [matchNodeLabels |-> <<>>, preferredArchitecture |-> "",
                  schedulableArchitectures |-> {}, systemOS |-> "linux"]
    /\ podLabels = [k \in {} |-> ""]
    /\ origSpec = PodSpecOf("", NilMap, <<>>)
    /\ registry = <<>>
    /\ podSpec = origSpec
    /\ firstSpec = origSpec
    /\ outcome = Outcome(origSpec, "", "", "none", NoLoop)
    /\ response = NoResponse
    /\ rpc = "idle"


\* A registry client that no ListArchs call runs on.
IdleClient ==
    /\ schedulable = {}
    /\ emits = [a \in {Chain[i] : i \in 1..Len(Chain)} |-> 0]
    /\ producer = [index |-> 0, pending |-> 0, sent |-> 0, closed |-> FALSE]
    /\ consumer = [pc |-> "idle", auth |-> NoCandidate, err |-> ""]
    /\ ctxDone = FALSE
    /\ attempts = <<>>
    /\ lastAttempt = NoAttempt
    /\ result = NoResult

\* A rate-limited transport that carries no request.
IdleRate ==
    /\ ConcurrentCallsLimit = 0
    /\ requestsChans = [k \in RequestKeys |-> 0]
    /\ inFlights = [k \in RequestKeys |-> 0]
    /\ chans = [c \in Requests |-> NoChan]
    /\ requests = [r \in Requests |-> IdleRequest]

\* A registry client that has no image to parse.
IdleImage ==
    /\ PrivateRegistryPatterns = <<>>
    /\ Proxies = <<>>
    /\ reference = <<>>
    /\ parsed = NotParsed
    /\ anonymous = NotRun

\* A webhook whose requests are the CREATE of a pod, decoded and serialised
\* without error.
IdleAdmission ==
    /\ decoder = TRUE
    /\ request = [kind |-> "Pod", operation |-> "CREATE", decodable |-> TRUE,
                  serialisable |-> TRUE]
    /\ admitted = NotHandled

\* A registry client that verifies no manifest list.
IdleFanout ==
    /\ manifestList = <<>>
    /\ verifiers = [i \in {} |-> "done"]
    /\ collector = [pc |-> "idle", platforms |-> {}, failed |-> FALSE]
    /\ outChanClosed = FALSE

\* A reconciler that has deleted no pod.
IdleEvents ==
    /\ apiEvents = [k \in {} |-> NoEvent]
    /\ accepted = [o \in NotifiedOwners |-> 0]
    /\ deleteCalls = 0

\* A transport that carries no request to any registry host.
IdleScope ==
    /\ authenticateCache = [k \in {} |-> <<>>]
    /\ sentRequests = {}
    /\ trip = NoTrip
    /\ trips = 0

\* A webhook that is about to receive a request; nothing else runs.
InitWebhook ==
    InitResolver /\ InitCache /\ InitReconciler /\ IdleClient /\ InitRoundTrips
    /\ IdleRate /\ IdleImage /\ IdleAdmission /\ IdleFanout /\ IdleEvents /\ IdleScope

\* A cached registry that is about to receive calls; nothing else runs.
InitRegistry ==
    IdleResolver /\ InitCache /\ InitReconciler /\ IdleClient /\ InitRoundTrips
    /\ IdleRate /\ IdleImage /\ IdleAdmission /\ IdleFanout /\ IdleEvents /\ IdleScope

\* A controller that is about to see its first pod; nothing else runs.
InitController ==
    IdleResolver /\ InitCache /\ InitReconciler /\ IdleClient /\ InitRoundTrips
    /\ IdleRate /\ IdleImage /\ IdleAdmission /\ IdleFanout /\ IdleEvents /\ IdleScope

\* Admission requests through the placement resolver.
SpecResolver == InitWebhook /\ [][NextResolver]_vars

\* Concurrent ListArchs calls on the cached registry and its clean-ups.
SpecCache == InitRegistry /\ [][NextCache]_vars

\* The pod reconciler and the cluster's pod events.
SpecReconciler == InitController /\ [][NextReconciler]_vars

\* A ListArchs call that is about to start; nothing else runs.
InitListArchs ==
    IdleResolver /\ InitCache /\ InitReconciler /\ InitClient /\ InitRoundTrips
    /\ IdleRate /\ IdleImage /\ IdleAdmission /\ IdleFanout /\ IdleEvents /\ IdleScope

\* One ListArchs call of the registry client and its authenticator goroutine.
SpecListArchs == InitListArchs /\ [][NextClient]_vars

\* The same with a scheduler that runs every goroutine that can take a step
\* and a registry that answers every request.
SpecListArchsFair == SpecListArchs /\ WF_vars(NextClient)

\* A transport that is about to carry its first request; nothing else runs.
InitTransport ==
    IdleResolver /\ InitCache /\ InitReconciler /\ IdleClient /\ InitRoundTrips
    /\ IdleRate /\ IdleImage /\ IdleAdmission /\ IdleFanout /\ IdleEvents /\ IdleScope

\* Requests through the WWW-Authenticate transport and the clean-ups of its
\* token cache.
SpecTransport == InitTransport /\ [][NextTransport]_vars

\* The pod reconciler while images are pushed again with other platforms.
SpecReconcilerAndPushes == InitController /\ [][NextReconcilerAndPushes]_vars

\* A rate-limited transport that is about to carry its first request.
InitRateLimited ==
    IdleResolver /\ InitCache /\ InitReconciler /\ IdleClient /\ InitRoundTrips
    /\ InitRate /\ IdleImage /\ IdleAdmission /\ IdleFanout /\ IdleEvents /\ IdleScope

\* Concurrent RoundTrip calls on the rate-limited transport.
SpecRateLimited == InitRateLimited /\ [][NextRate]_vars

\* A registry client that is about to parse an image.
InitImageReference ==
    IdleResolver /\ InitCache /\ InitReconciler /\ IdleClient /\ InitRoundTrips
    /\ IdleRate /\ InitImage /\ IdleAdmission /\ IdleFanout /\ IdleEvents /\ IdleScope

\* parseImage and the anonymous authenticator on one image reference.
SpecImageReference == InitImageReference /\ [][NextImage]_vars

\* A webhook that is about to receive an admission request of any kind for
\* a workload of at most one image.
InitAdmission ==
    /\ handler \in Handlers
    /\ podLabels \in PodLabelSets
    /\ origSpec \in {PodSpecOf("", NilMap, <<>>), PodSpecOf("node-1", NilMap, <<>>)}
    /\ registry \in {<<>>} \cup {<<a>> : a \in ListArchsAnswers}
    /\ podSpec = origSpec
    /\ firstSpec = origSpec
    /\ outcome = Outcome(origSpec, "", "", "none", NoLoop)
    /\ response = NoResponse
    /\ rpc = "idle"
    /\ InitCache /\ InitReconciler /\ IdleClient /\ InitRoundTrips
    /\ IdleRate /\ IdleImage /\ IdleFanout /\ IdleEvents /\ IdleScope
    /\ decoder \in BOOLEAN
    /\ request \in AdmissionRequests
    /\ admitted = NotHandled

\* Admission requests of every kind through Handler.Handle.
SpecAdmission == InitAdmission /\ [][NextAdmission]_vars

\* A manifest list whose descriptors are about to be verified, for a client
\* with or without schedulable architectures.
InitVerifyList ==
    /\ IdleResolver /\ InitCache /\ InitReconciler /\ InitRoundTrips
    /\ schedulable \in {{}, {"amd64"}, {"arm64"}}
    /\ emits = [a \in {Chain[i] : i \in 1..Len(Chain)} |-> 0]
    /\ producer = [index |-> 0, pending |-> 0, sent |-> 0, closed |-> FALSE]
    /\ consumer = [pc |-> "idle", auth |-> NoCandidate, err |-> ""]
    /\ ctxDone = FALSE
    /\ attempts = <<>>
    /\ lastAttempt = NoAttempt
    /\ result = NoResult
    /\ IdleRate /\ IdleImage /\ IdleAdmission /\ IdleEvents /\ IdleScope
    /\ InitFanout

\* The goroutines of one manifest-list attempt of listArchsWithAuth.
SpecFanout == InitVerifyList /\ [][NextFanout]_vars

\* The same with a scheduler that runs every goroutine that can take a step
\* and a registry that answers every request.
SpecFanoutFair == SpecFanout /\ WF_vars(NextFanout)

\* A reconciler that is about to delete its first pod; nothing else runs.
InitDeletions ==
    IdleResolver /\ InitCache /\ InitReconciler /\ IdleClient /\ InitRoundTrips
    /\ IdleRate /\ IdleImage /\ IdleAdmission /\ IdleFanout /\ InitEvents /\ IdleScope

\* The deletions of misplaced pods and their events.
SpecDeletionEvents == InitDeletions /\ [][NextEvents]_vars

\* A transport that is about to carry requests to two registry hosts.
InitTokenScope ==
    IdleResolver /\ InitCache /\ InitReconciler /\ IdleClient /\ InitRoundTrips
    /\ IdleRate /\ IdleImage /\ IdleAdmission /\ IdleFanout /\ IdleEvents /\ InitScope

\* Successive RoundTrip calls of the WWW-Authenticate transport to the hosts.
SpecTokenScope == InitTokenScope /\ [][NextScope]_vars

\* The reconciler with a workqueue that hands every queued request to a
\* Reconcile that neither the registry nor the API server fails, and an
\* informer that resyncs every pod.
SpecReconcilerFair ==
    /\ SpecReconciler
    /\ \A p \in PodNames : WF_vars(ReconcileUnhindered(p)) /\ WF_vars(Resync(p))

====
